---- MODULE Spec2Model ----
(***************************************************************************)
(* nview: failure accounting of the polling tasks, peer discovery          *)
(* (filterPeers), peer probing (pingPeers / tcpinfoRtt / resetPeers) and   *)
(* the epoch progress computation (getEpochProgress).                      *)
(*                                                                         *)
(* Go strings that the code formats and parses again ("ip:port",           *)
(* "ip;port;dir") are sequences of one-character strings, so that          *)
(* fmt.Sprintf and strings.Split are modelled by what they do.             *)
(***************************************************************************)
EXTENDS Integers, Sequences, FiniteSets, TLC

\* ------------------------------------------------------------------ bounds
\* largest number of rows of the TCP connection table
MaxConns == 2
\* cap of the failure counter (the counter itself is a uint32)
MaxFail == 4
\* number of clock ticks (one tick is TickSeconds)
MaxTicks == 1
\* cap of the number of stored probe results
MaxResults == 3
\* largest epoch number, slot in epoch and epoch length of the epoch
\* progress specification
MaxEpochNum == 3
MaxSlot == 3
MaxEpochLength == 3
\* a clock this many seconds after the end of the Byron era
FarSeconds == 1300

\* ------------------------------------------------------- program constants
Retries == 3
NodePort == 3001
PromPort == 12798
EkgPort == 12788
RTTUnreachable == 99999
FreshSeconds == 600
\* the significand of a float32 has 24 bits
F32MantissaBits == 24
\* ShelleyGenesis.EpochLength of mainnet and its Shelley transition epoch
MainnetEpochLength == 432000
MainnetTransEpoch == 208
\* ByronGenesis.EpochLength of mainnet
MainnetByronEpochLength == 21600
\* one clock tick of the model is as long as the freshness window
TickSeconds == FreshSeconds
AMARU_BINARY == "amaru"
CARDANO_BINARY == "cardano-node"

\* ----------------------------------------------------------------- strings
Digit(d) ==
  CASE d = 0 -> "0" [] d = 1 -> "1" [] d = 2 -> "2" [] d = 3 -> "3"
    [] d = 4 -> "4" [] d = 5 -> "5" [] d = 6 -> "6" [] d = 7 -> "7"
    [] d = 8 -> "8" [] d = 9 -> "9"

RECURSIVE FormatUint(_)
\* strconv.FormatUint(n, 10), also the %d verb of fmt.Sprintf
FormatUint(n) ==
  IF n < 10 THEN <<Digit(n)>> ELSE FormatUint(n \div 10) \o <<Digit(n % 10)>>

DigitValue(c) ==
  CASE c = "0" -> 0 [] c = "1" -> 1 [] c = "2" -> 2 [] c = "3" -> 3
    [] c = "4" -> 4 [] c = "5" -> 5 [] c = "6" -> 6 [] c = "7" -> 7
    [] c = "8" -> 8 [] c = "9" -> 9 [] OTHER -> -1

RECURSIVE AtoiFrom(_, _, _)
AtoiFrom(s, i, acc) ==
  IF i > Len(s) THEN acc
  ELSE IF DigitValue(s[i]) < 0 THEN -1
  ELSE AtoiFrom(s, i + 1, acc * 10 + DigitValue(s[i]))

\* strconv.Atoi followed by "if err != nil { peerPort = 0 }"
AtoiOrZero(s) ==
  IF Len(s) = 0 THEN 0
  ELSE IF AtoiFrom(s, 1, 0) < 0 THEN 0 ELSE AtoiFrom(s, 1, 0)

RECURSIVE SplitFrom(_, _, _, _)
SplitFrom(s, sep, i, cur) ==
  IF i > Len(s) THEN <<cur>>
  ELSE IF s[i] = sep THEN <<cur>> \o SplitFrom(s, sep, i + 1, <<>>)
  ELSE SplitFrom(s, sep, i + 1, Append(cur, s[i]))

\* strings.Split(s, sep) for a one-character separator
Split(s, sep) == SplitFrom(s, sep, 1, <<>>)

\* strings.TrimPrefix(strings.TrimSuffix(peerIP, "]"), "[") under
\* strings.HasPrefix(peerIP, "[")
TrimBrackets(ip) ==
  IF Len(ip) > 0 /\ ip[1] = "["
  THEN LET noSuffix == IF ip[Len(ip)] = "]" /\ Len(ip) > 1
                       THEN SubSeq(ip, 1, Len(ip) - 1) ELSE ip
       IN  SubSeq(noSuffix, 2, Len(noSuffix))
  ELSE ip

\* fmt.Sprintf("%s:%d", ip, port)
SprintfAddr(ip, port) == ip \o <<":">> \o FormatUint(port)

\* fmt.Sprintf("%s;%s;<dir>", peerIP, peerPORT)
SprintfPeer(peerIP, peerPORT, dir) ==
  peerIP \o <<";">> \o peerPORT \o <<";">> \o dir

DirIn == <<"i">>
DirOut == <<"o">>
DirDuplex == <<"i", "+", "o">>

\* ------------------------------------------------------------- addresses
Loopback == <<"1", "2", "7", ".", "0", ".", "0", ".", "1">>
IP_A == <<"1", "0", ".", "0", ".", "0", ".", "5">>
IP_B == <<"1", "0", ".", "0", ".", "0", ".", "6">>
IP_Public == <<"8", ".", "8", ".", "4", ".", "4">>
\* the IPv6 loopback as net.IP.String prints it (no brackets)
LoopbackV6 == <<":", ":", "1">>
\* publicIP == nil
NilIP == <<>>

\* the rows the TCP connection table of the node process is drawn from
ConnUniverse == <<
  [Status |-> "ESTABLISHED", LaddrPort |-> NodePort, RaddrIP |-> IP_A, RaddrPort |-> 4001],
  [Status |-> "ESTABLISHED", LaddrPort |-> 50000, RaddrIP |-> IP_A, RaddrPort |-> 3001],
  [Status |-> "ESTABLISHED", LaddrPort |-> NodePort, RaddrIP |-> IP_B, RaddrPort |-> 4002],
  [Status |-> "ESTABLISHED", LaddrPort |-> 50001, RaddrIP |-> Loopback, RaddrPort |-> 3001],
  [Status |-> "ESTABLISHED", LaddrPort |-> 50002, RaddrIP |-> IP_Public, RaddrPort |-> NodePort],
  [Status |-> "ESTABLISHED", LaddrPort |-> NodePort, RaddrIP |-> IP_Public, RaddrPort |-> 4003],
  [Status |-> "TIME_WAIT", LaddrPort |-> NodePort, RaddrIP |-> IP_B, RaddrPort |-> 4004],
  [Status |-> "ESTABLISHED", LaddrPort |-> PromPort, RaddrIP |-> IP_B, RaddrPort |-> 4005],
  [Status |-> "ESTABLISHED", LaddrPort |-> EkgPort, RaddrIP |-> IP_A, RaddrPort |-> 4006],
  [Status |-> "ESTABLISHED", LaddrPort |-> 50003, RaddrIP |-> LoopbackV6, RaddrPort |-> 3001]
>>

ConnIds == 1..Len(ConnUniverse)

\* the tables netutil.ConnectionsPidWithContext can return: the rows of a
\* set of at most MaxConns connections, in the order of the table
ConnTables == {t \in SUBSET ConnIds : Cardinality(t) <= MaxConns}

RECURSIVE TableRowsFrom(_, _)
TableRowsFrom(t, i) ==
  IF i > Len(ConnUniverse) THEN <<>>
  ELSE (IF i \in t THEN <<ConnUniverse[i]>> ELSE <<>>) \o TableRowsFrom(t, i + 1)

TableRows(t) == TableRowsFrom(t, 1)

\* --------------------------------------------------------------- discovery
RECURSIVE PeersInFrom(_, _)
\* the "ip:port" strings of the inbound connections
PeersInFrom(rows, i) ==
  IF i > Len(rows) THEN <<>>
  ELSE (IF rows[i].Status = "ESTABLISHED" /\ rows[i].LaddrPort = NodePort
        THEN <<SprintfAddr(rows[i].RaddrIP, rows[i].RaddrPort)>> ELSE <<>>)
       \o PeersInFrom(rows, i + 1)

PeersIn(rows) == PeersInFrom(rows, 1)

RECURSIVE PeersOutKeepsReservedFrom(_, _)
\* the outbound test without the exclusion of port 12788
PeersOutKeepsReservedFrom(rows, i) ==
  IF i > Len(rows) THEN <<>>
  ELSE (IF /\ rows[i].Status = "ESTABLISHED"
           /\ rows[i].LaddrPort # NodePort
           /\ rows[i].LaddrPort # PromPort
        THEN <<SprintfAddr(rows[i].RaddrIP, rows[i].RaddrPort)>> ELSE <<>>)
       \o PeersOutKeepsReservedFrom(rows, i + 1)

RECURSIVE PeersOutFrom(_, _)
\* the "ip:port" strings of the outbound connections
PeersOutFrom(rows, i) ==
  IF i > Len(rows) THEN <<>>
  ELSE (IF /\ rows[i].Status = "ESTABLISHED"
           /\ rows[i].LaddrPort # NodePort
           /\ rows[i].LaddrPort # EkgPort
           /\ rows[i].LaddrPort # PromPort
        THEN <<SprintfAddr(rows[i].RaddrIP, rows[i].RaddrPort)>> ELSE <<>>)
       \o PeersOutFrom(rows, i + 1)

PeersOut(rows) == PeersOutFrom(rows, 1)

\* slices.Delete(peers, i, i+1)
SliceDelete(peers, i) == SubSeq(peers, 1, i - 1) \o SubSeq(peers, i + 1, Len(peers))

\* a self-connection test without the public-address clause; C9 fails under it
IsSelfLoopbackOnly(peerIP, peerPORT, pubIP) == peerIP = Loopback

\* the self-connection test of filterPeers
IsSelf(peerIP, peerPORT, pubIP) ==
  \/ peerIP = Loopback
  \/ (pubIP # NilIP /\ peerIP = pubIP /\ peerPORT = FormatUint(NodePort))

RECURSIVE ScanPeers(_, _, _, _, _, _)
\* the inner loop "for i, toCheck := range peers": p is the split "ip:port"
\* string, ownDir the direction of the list being processed.  Go's p[2] is
\* p[3] here; it is out of range when the split has fewer than three parts.
ScanPeers(peers, i, p, peerIP, peerPORT, ownDir) ==
  IF i > Len(peers)
  THEN [peers |-> peers, added |-> FALSE, panicked |-> FALSE]
  ELSE LET checkIPArr == Split(peers[i], ":")
           checkIP == checkIPArr[1]
       IN  IF checkIP = peerIP
           THEN IF Len(p) < 3
                THEN [peers |-> peers, added |-> FALSE, panicked |-> TRUE]
                ELSE IF p[3] # ownDir
                THEN [peers |-> Append(SliceDelete(peers, i),
                                       SprintfPeer(peerIP, peerPORT, DirDuplex)),
                      added |-> TRUE, panicked |-> FALSE]
                ELSE ScanPeers(peers, i + 1, p, peerIP, peerPORT, ownDir)
           ELSE ScanPeers(peers, i + 1, p, peerIP, peerPORT, ownDir)

\* the body of "for _, peer := range peersIn" (ownDir = "i") and of
\* "for _, peer := range peersOut" (ownDir = "o")
ProcessPeer(acc, peer, ownDir, pubIP) ==
  IF acc.panicked THEN acc
  ELSE LET p == Split(peer, ":")
       IN  IF Len(p) < 2 THEN [peers |-> acc.peers, panicked |-> TRUE]
           ELSE LET peerIP == TrimBrackets(p[1])
                    peerPORT == p[2]
                IN  IF IsSelf(peerIP, peerPORT, pubIP) THEN acc
                    ELSE LET r == ScanPeers(acc.peers, 1, p, peerIP, peerPORT, ownDir)
                         IN  IF r.panicked THEN [peers |-> r.peers, panicked |-> TRUE]
                             ELSE IF r.added THEN [peers |-> r.peers, panicked |-> FALSE]
                             ELSE [peers |-> Append(r.peers,
                                                    SprintfPeer(peerIP, peerPORT, ownDir)),
                                   panicked |-> FALSE]

RECURSIVE ProcessList(_, _, _, _, _)
ProcessList(acc, list, i, ownDir, pubIP) ==
  IF i > Len(list) THEN acc
  ELSE ProcessList(ProcessPeer(acc, list[i], ownDir, pubIP), list, i + 1, ownDir, pubIP)

\* the local "peers" of filterPeers after both lists have been processed
BuildPeers(rows, pubIP) ==
  ProcessList(ProcessList([peers |-> <<>>, panicked |-> FALSE],
                          PeersIn(rows), 1, DirIn, pubIP),
              PeersOut(rows), 1, DirOut, pubIP)

\* a last statement that always installs the local peers
ReplaceSnapshotAlways(peers, current) == peers

\* a last statement that appends the local peers to the current snapshot
ReplaceSnapshotAppending(peers, current) ==
  IF Len(peers) # Len(current) THEN current \o peers ELSE current

\* the last statement of filterPeers: peersFiltered after it, given the
\* local peers and the current peersFiltered
ReplaceSnapshot(peers, current) == IF Len(peers) # Len(current) THEN peers ELSE current

\* the fields of a "ip;port;dir" entry as pingPeers reads them
PeerArr(v) == Split(v, ";")
EntryIP(v) == PeerArr(v)[1]
EntryPort(v) == PeerArr(v)[2]
EntryDir(v) == PeerArr(v)[3]

\* ----------------------------------------------------------------- probing
\* round-trip times (ms) a decoded tcpinfo.Info can carry, one per bucket
RttSamples == {0, 70, 150, 300}

\* how far one call of tcpinfoRtt gets: "connectFail" (net.DialTimeout or
\* tcp.NewConn fails, or the connection is nil), "optionFail" (tc.Option
\* fails), "marshalFail" (json.Marshal fails), "decoded" (json.Unmarshal
\* returns no error and q.RTT is rtt), "decodeErr" (json.Unmarshal returns an
\* error after filling q.RTT with rtt)
ProbeOutcomes ==
  {[stage |-> st, rtt |-> 0] : st \in {"connectFail", "optionFail", "marshalFail"}}
  \cup {[stage |-> st, rtt |-> r] : st \in {"decoded", "decodeErr"}, r \in RttSamples}

\* a probe that reports 0 ms when the connect fails; C8 fails under it
tcpinfoRttZeroOnConnectFail(o) ==
  CASE o.stage = "connectFail" -> 0
    [] o.stage = "decodeErr" -> o.rtt
    [] OTHER -> RTTUnreachable

\* tcpinfoRtt: the result stays 99999 unless json.Unmarshal returns an error
tcpinfoRtt(o) ==
  CASE o.stage = "connectFail" -> RTTUnreachable
    [] o.stage = "optionFail" -> RTTUnreachable
    [] o.stage = "marshalFail" -> RTTUnreachable
    [] o.stage = "decodeErr" -> o.rtt
    [] OTHER -> RTTUnreachable

NoLocation == "---"
\* the addresses the embedded GeoLite2 database resolves
GeoKnown == {IP_B, IP_Public}
getGeoIP(address) == IF address \in GeoKnown THEN "City, CC" ELSE NoLocation

\* an early return that looks at the age and the RTT only
SkipProbeFreshOnly(m, peerIP, t) ==
  /\ peerIP \in DOMAIN m
  /\ m[peerIP].UpdatedAt > t - FreshSeconds
  /\ m[peerIP].RTT # 0

\* "Return early if we've been checked recently"
SkipProbe(m, peerIP, t) ==
  /\ peerIP \in DOMAIN m
  /\ \/ (m[peerIP].UpdatedAt > t - FreshSeconds /\ m[peerIP].RTT # 0)
     \/ m[peerIP].Location # NoLocation

\* the counter updates of one probe
CountProbe(ps, peerRTT) ==
  LET s1 == IF peerRTT # RTTUnreachable
            THEN [ps EXCEPT !.RTTSUM = ps.RTTSUM + peerRTT] ELSE ps
  IN  IF peerRTT < 50 THEN [s1 EXCEPT !.CNT1 = s1.CNT1 + 1]
      ELSE IF peerRTT < 100 THEN [s1 EXCEPT !.CNT2 = s1.CNT2 + 1]
      ELSE IF peerRTT < 200 THEN [s1 EXCEPT !.CNT3 = s1.CNT3 + 1]
      ELSE IF peerRTT < RTTUnreachable THEN [s1 EXCEPT !.CNT4 = s1.CNT4 + 1]
      ELSE [s1 EXCEPT !.CNT0 = s1.CNT0 + 1]

\* peerRTTresultsSlice.Less
Less(p, i, j) == p[i].RTT < p[j].RTT

\* peerRTTresultsSlice.Swap
Swap(p, i, j) == [p EXCEPT ![i] = p[j], ![j] = p[i]]

RECURSIVE SinkDown(_, _)
\* inner loop of the insertion sort sort.Sort runs on slices of fewer
\* than 12 elements: for j := i; j > a && Less(j, j-1); j-- { Swap(j, j-1) }
SinkDown(p, j) ==
  IF j > 1 /\ Less(p, j, j - 1) THEN SinkDown(Swap(p, j, j - 1), j - 1) ELSE p

RECURSIVE SortFrom(_, _)
SortFrom(p, i) == IF i > Len(p) THEN p ELSE SortFrom(SinkDown(p, i), i + 1)

\* an append that leaves the list as it is
SortNot(p) == p

\* sort.Sort(peerStats.RTTresultsSlice)
Sort(p) == SortFrom(p, 2)

\* peerStats.RTTresultsMap[peerIP] = peer
MapPut(m, k, v) == [x \in (DOMAIN m) \cup {k} |-> IF x = k THEN v ELSE m[x]]

\* one goroutine of pingPeers that did not return early
ProbePeer(ps, v, o, t) ==
  LET peerIP == EntryIP(v)
      peerRTT == tcpinfoRtt(o)
      peer == [IP |-> peerIP, Port |-> AtoiOrZero(EntryPort(v)),
               Direction |-> EntryDir(v), RTT |-> peerRTT,
               Location |-> getGeoIP(peerIP), UpdatedAt |-> t]
      counted == CountProbe(ps, peerRTT)
  IN  [counted EXCEPT !.RTTresultsMap = MapPut(ps.RTTresultsMap, peerIP, peer),
                      !.RTTresultsSlice = Sort(Append(ps.RTTresultsSlice, peer))]

\* float32(cnt) / float32(peerCNTreachable) * 100 as an exact fraction
Pct(cnt, reachable) == [num |-> cnt * 100, den |-> reachable]

\* the aggregates computed after the loop of pingPeers
Aggregate(ps, peerCount) ==
  LET peerCNTreachable == peerCount - ps.CNT0
  IN  IF peerCNTreachable > 0
      THEN [ps EXCEPT !.RTTAVG = ps.RTTSUM \div peerCNTreachable,
                      !.PCT1 = Pct(ps.CNT1, peerCNTreachable),
                      !.PCT2 = Pct(ps.CNT2, peerCNTreachable),
                      !.PCT3 = Pct(ps.CNT3, peerCNTreachable),
                      !.PCT4 = Pct(ps.CNT4, peerCNTreachable)]
      ELSE ps

\* the completion test at the end of a pass
PassComplete(ps, peerCount) ==
  Len(ps.RTTresultsSlice) # 0 /\ Len(ps.RTTresultsSlice) >= peerCount

\* resetPeers: the objects of the map are kept, their RTT is zeroed
ResetStats(ps) ==
  [ps EXCEPT !.CNT0 = 0, !.CNT1 = 0, !.CNT2 = 0, !.CNT3 = 0, !.CNT4 = 0,
             !.RTTSUM = 0, !.RTTresultsSlice = <<>>,
             !.RTTresultsMap = [x \in DOMAIN ps.RTTresultsMap |->
                                  [ps.RTTresultsMap[x] EXCEPT !.RTT = 0]]]

ZeroPct == [num |-> 0, den |-> 1]
\* the zero value of PeerStats with the map and slice main() installs
InitPeerStats ==
  [RTTSUM |-> 0, RTTAVG |-> 0, CNT0 |-> 0, CNT1 |-> 0, CNT2 |-> 0,
   CNT3 |-> 0, CNT4 |-> 0, PCT1 |-> ZeroPct, PCT2 |-> ZeroPct,
   PCT3 |-> ZeroPct, PCT4 |-> ZeroPct,
   RTTresultsMap |-> [x \in {} |-> 0], RTTresultsSlice |-> <<>>]

\* ---------------------------------------------------------- epoch progress
\* a float32: finite values are the exact fraction num/den
F32(n, d) == [kind |-> "fin", num |-> n, den |-> d]
F32Zero == F32(0, 1)
F32Inf == [kind |-> "inf", num |-> 1, den |-> 0]
F32NaN == [kind |-> "nan", num |-> 0, den |-> 0]

\* float32(x) of an unsigned integer x < 2^(F32MantissaBits + 1): exact up to
\* 2^F32MantissaBits, rounded to the nearest even mantissa above it
ToF32(x) ==
  IF x <= 2^F32MantissaBits THEN x
  ELSE IF x % 2 = 0 THEN x
  ELSE IF (x \div 2) % 2 = 0 THEN x - 1 ELSE x + 1

\* (float32(x) / float32(y)) * 100 with IEEE-754 division by zero.  The
\* quotient and the product are kept as the exact fraction of the converted
\* operands: rounding them is monotone and 0 and 100 are float32 values, so
\* the comparison of the result with 0 and with 100 is the one of the code.
F32Div100(x, y) ==
  IF ToF32(y) = 0 THEN (IF ToF32(x) = 0 THEN F32NaN ELSE F32Inf)
  ELSE F32(100 * ToF32(x), ToF32(y))

\* promMetrics == nil
NilMetrics == [isNil |-> TRUE, EpochNum |-> 0, SlotInEpoch |-> 0]
Metrics(e, s) == [isNil |-> FALSE, EpochNum |-> e, SlotInEpoch |-> s]

\* getEpochProgress without its test of the negative transition epoch, the
\* comparison being the one of uint64(int32) values; C11 fails under it
getEpochProgressNoSentinel(cfg, pm) ==
  IF pm.isNil THEN F32Zero
  ELSE IF cfg.ShelleyTransEpoch < 0 \/ pm.EpochNum >= cfg.ShelleyTransEpoch
  THEN F32Div100(pm.SlotInEpoch, cfg.ShelleyEpochLength)
  ELSE F32Div100(pm.SlotInEpoch, cfg.ByronEpochLength)

\* getEpochProgress with the boundary epoch left to the Byron era; C13 fails
\* under it
getEpochProgressLateBoundary(cfg, pm) ==
  IF cfg.ShelleyTransEpoch < 0 THEN F32Zero
  ELSE IF pm.isNil THEN F32Zero
  ELSE IF pm.EpochNum > cfg.ShelleyTransEpoch
  THEN F32Div100(pm.SlotInEpoch, cfg.ShelleyEpochLength)
  ELSE F32Div100(pm.SlotInEpoch, cfg.ByronEpochLength)

getEpochProgress(cfg, pm) ==
  IF cfg.ShelleyTransEpoch < 0 THEN F32Zero
  ELSE IF pm.isNil THEN F32Zero
  ELSE IF pm.EpochNum >= cfg.ShelleyTransEpoch
  THEN F32Div100(pm.SlotInEpoch, cfg.ShelleyEpochLength)
  ELSE F32Div100(pm.SlotInEpoch, cfg.ByronEpochLength)

\* the snapshots a metrics fetch can return in the polling specification
PromSamples == {Metrics(1, 1), Metrics(2, 3)}
\* the node configuration of the polling specification
PollCfgNode == [ShelleyTransEpoch |-> 2, ShelleyEpochLength |-> 4, ByronEpochLength |-> 2]

\* ------------------------------------------------------------ configuration
\* getDefaultConfig: the fields LoadConfig and the slot arithmetic read
getDefaultConfig ==
  [App |-> [Network |-> ""],
   Node |-> [Network |-> "mainnet", NetworkMagic |-> 0, Port |-> NodePort,
             ShelleyTransEpoch |-> -1,
             ByronGenesis |-> [StartTime |-> 0, EpochLength |-> 0, K |-> 0,
                               SlotLength |-> 0],
             ShelleyGenesis |-> [EpochLength |-> 0, SlotLength |-> 0,
                                 SlotsPerKESPeriod |-> 0]]]

\* the cases of the two switches of populateNetworkMagic
MagicNetworks == {"mainnet", "preprod", "preview"}
NetworkMagicCase(name) ==
  CASE name = "mainnet" -> 764824073
    [] name = "preprod" -> 1
    [] name = "preview" -> 2

\* populateNetworkMagic without the mainnet fallback of its last branch
populateNetworkMagicNoFallback(c) ==
  IF c.Node.NetworkMagic # 0 THEN [cfg |-> c, err |-> ""]
  ELSE IF c.App.Network # ""
  THEN IF c.App.Network \in MagicNetworks
       THEN [cfg |-> [c EXCEPT !.Node.NetworkMagic = NetworkMagicCase(c.App.Network),
                               !.Node.Port = 3001],
             err |-> ""]
       ELSE [cfg |-> c, err |-> "unknown network"]
  ELSE IF c.Node.Network # ""
  THEN IF c.Node.Network \in MagicNetworks
       THEN [cfg |-> [c EXCEPT !.Node.NetworkMagic = NetworkMagicCase(c.Node.Network)],
             err |-> ""]
       ELSE [cfg |-> c, err |-> "unknown network"]
  ELSE [cfg |-> c, err |-> "unknown network"]

populateNetworkMagic(c) ==
  IF c.Node.NetworkMagic # 0 THEN [cfg |-> c, err |-> ""]
  ELSE IF c.App.Network # ""
  THEN IF c.App.Network \in MagicNetworks
       THEN [cfg |-> [c EXCEPT !.Node.NetworkMagic = NetworkMagicCase(c.App.Network),
                               !.Node.Port = 3001],
             err |-> ""]
       ELSE [cfg |-> c, err |-> "unknown network"]
  ELSE IF c.Node.Network # ""
  THEN IF c.Node.Network \in MagicNetworks
       THEN [cfg |-> [c EXCEPT !.Node.NetworkMagic = NetworkMagicCase(c.Node.Network)],
             err |-> ""]
       ELSE [cfg |-> c, err |-> "unknown network"]
  ELSE [cfg |-> [c EXCEPT !.Node.Network = "mainnet",
                          !.Node.NetworkMagic = 764824073,
                          !.Node.Port = 3001],
        err |-> ""]

\* the switch of populateByronGenesis on a network name, applied to the
\* genesis that already holds SlotLength 20000 and K 2160
ByronGenesisCase(g, name) ==
  CASE name = "preview" -> [g EXCEPT !.K = 432, !.StartTime = 1666656000]
    [] name = "preprod" -> [g EXCEPT !.StartTime = 1654041600]
    [] name = "sancho" -> [g EXCEPT !.K = 432, !.StartTime = 1686789000]
    [] name = "mainnet" -> [g EXCEPT !.StartTime = 1506203091]
    [] OTHER -> g

populateByronGenesis(c) ==
  IF c.Node.ByronGenesis.StartTime # 0 THEN [cfg |-> c, err |-> ""]
  ELSE LET g0 == [c.Node.ByronGenesis EXCEPT !.SlotLength = 20000, !.K = 2160]
           name == IF c.App.Network # "" THEN c.App.Network ELSE c.Node.Network
       IN  IF name = ""
           THEN [cfg |-> [c EXCEPT !.Node.ByronGenesis = g0],
                 err |-> "unable to populate byron genesis config"]
           ELSE LET g1 == ByronGenesisCase(g0, name)
                IN  [cfg |-> [c EXCEPT !.Node.ByronGenesis =
                                         [g1 EXCEPT !.EpochLength = 10 * g1.K]],
                     err |-> ""]

\* the switch of populateShelleyGenesis on a network name
ShelleyGenesisCase(g, name) ==
  CASE name = "sancho" -> [g EXCEPT !.EpochLength = 86400]
    [] name = "preview" -> [g EXCEPT !.EpochLength = 86400]
    [] OTHER -> g

populateShelleyGenesis(c) ==
  IF c.Node.ShelleyGenesis.EpochLength # 0 THEN [cfg |-> c, err |-> ""]
  ELSE LET g0 == [c.Node.ShelleyGenesis EXCEPT !.SlotLength = 1000,
                                               !.SlotsPerKESPeriod = 129600,
                                               !.EpochLength = MainnetEpochLength]
           name == IF c.App.Network # "" THEN c.App.Network ELSE c.Node.Network
       IN  IF name = ""
           THEN [cfg |-> [c EXCEPT !.Node.ShelleyGenesis = g0],
                 err |-> "unable to populate shelley genesis config"]
           ELSE [cfg |-> [c EXCEPT !.Node.ShelleyGenesis = ShelleyGenesisCase(g0, name)],
                 err |-> ""]

\* the switch of populateShelleyTransEpoch on a network name
ShelleyTransEpochCase(name) ==
  CASE name = "preprod" -> 4
    [] name = "mainnet" -> MainnetTransEpoch
    [] OTHER -> 0

populateShelleyTransEpoch(c) ==
  IF c.Node.ShelleyTransEpoch # -1 THEN [cfg |-> c, err |-> ""]
  ELSE LET name == IF c.App.Network # "" THEN c.App.Network ELSE c.Node.Network
       IN  IF name = ""
           THEN [cfg |-> [c EXCEPT !.Node.ShelleyTransEpoch = 0],
                 err |-> "unable to populate shelley transition epoch"]
           ELSE [cfg |-> [c EXCEPT !.Node.ShelleyTransEpoch = ShelleyTransEpochCase(name)],
                 err |-> ""]

\* how reading the file and the environment ends
LoadOutcomes == {"ok", "error reading config file", "error parsing config file",
                 "error processing environment"}

\* LoadConfig from the point where the file and the environment have been
\* read into c (io = "ok") or have failed
LoadConfig(c, io) ==
  IF io # "ok" THEN [cfg |-> c, err |-> io]
  ELSE LET r1 == populateNetworkMagic(c)
           r2 == populateByronGenesis(r1.cfg)
           r3 == populateShelleyGenesis(r2.cfg)
           r4 == populateShelleyTransEpoch(r3.cfg)
       IN  IF r1.err # "" THEN r1
           ELSE IF r2.err # "" THEN r2
           ELSE IF r3.err # "" THEN r3
           ELSE r4

\* the values the file and the environment can set: per field the value
\* getDefaultConfig gives it and explicit ones
ConfigInputs ==
  {[App |-> [Network |-> an],
    Node |-> [Network |-> nn, NetworkMagic |-> magic, Port |-> port,
              ShelleyTransEpoch |-> trans,
              ByronGenesis |-> [StartTime |-> bst, EpochLength |-> bel, K |-> bk,
                                SlotLength |-> bsl],
              ShelleyGenesis |-> [EpochLength |-> sel, SlotLength |-> ssl,
                                  SlotsPerKESPeriod |-> 0]]] :
     an \in {"", "mainnet", "preprod", "preview", "sancho", "unknown"},
     nn \in {"", "mainnet", "preview", "unknown"},
     magic \in {0, 42}, port \in {NodePort, 6000}, trans \in {-1, 5},
     bst \in {0, 7}, bel \in {0, 100}, bk \in {0, 5}, bsl \in {0, 1500},
     sel \in {0, 50}, ssl \in {0, 500}}

\* ------------------------------------------------------------ uint64 values
\* a uint64 is held as four limbs of LimbBits bits, the least significant
\* first; the operators are Go's +, -, * and / on uint64, which wrap
LimbBits == 16
Limb == 2^LimbBits

\* uint64(n) of an n in 0..2^31-1
U64(n) == <<n % Limb, n \div Limb, 0, 0>>

\* the integer of a value below 2^31
U64Int(a) == a[1] + Limb * a[2]

\* a + b
U64Add(a, b) ==
  LET s1 == a[1] + b[1]
      s2 == a[2] + b[2] + (s1 \div Limb)
      s3 == a[3] + b[3] + (s2 \div Limb)
      s4 == a[4] + b[4] + (s3 \div Limb)
  IN  <<s1 % Limb, s2 % Limb, s3 % Limb, s4 % Limb>>

\* a - b; a borrow is the quotient -1 of a negative limb difference
U64Sub(a, b) ==
  LET d1 == a[1] - b[1]
      d2 == a[2] - b[2] + (d1 \div Limb)
      d3 == a[3] - b[3] + (d2 \div Limb)
      d4 == a[4] - b[4] + (d3 \div Limb)
  IN  <<d1 % Limb, d2 % Limb, d3 % Limb, d4 % Limb>>

\* a * m for an m in 0..2^15-1
U64Mul(a, m) ==
  LET p1 == a[1] * m
      p2 == a[2] * m + (p1 \div Limb)
      p3 == a[3] * m + (p2 \div Limb)
      p4 == a[4] * m + (p3 \div Limb)
  IN  <<p1 % Limb, p2 % Limb, p3 % Limb, p4 % Limb>>

\* a / d for a d in 1..2^15-1
U64Div(a, d) ==
  LET r4 == a[4] % d
      n3 == r4 * Limb + a[3]
      n2 == (n3 % d) * Limb + a[2]
      n1 == (n2 % d) * Limb + a[1]
  IN  <<n1 \div d, n2 \div d, n3 \div d, a[4] \div d>>

\* a < b and a <= b
U64Less(a, b) ==
  \E k \in 1..4 : a[k] < b[k] /\ \A h \in (k + 1)..4 : a[h] = b[h]
U64LessEq(a, b) == a = b \/ U64Less(a, b)

\* ------------------------------------------------------------ slot estimate
\* byronEndTime of getSlotTipRef, in seconds
byronEndTime(c) ==
  c.Node.ByronGenesis.StartTime
    + ((c.Node.ShelleyTransEpoch * c.Node.ByronGenesis.EpochLength
          * c.Node.ByronGenesis.SlotLength) \div 1000)

\* byronSlots of getSlotTipRef
byronSlots(c) == c.Node.ShelleyTransEpoch * c.Node.ByronGenesis.EpochLength

\* the return of the branch currentTimeSec < byronEndTime
SlotTipByron(c, currentTimeSec) ==
  U64Div(U64Mul(U64Sub(U64(currentTimeSec), U64(c.Node.ByronGenesis.StartTime)),
                1000),
         c.Node.ByronGenesis.SlotLength)

\* the divisor uint64(g.SlotLength/1000000) of the last return
ShelleySlotSeconds(g) == g.SlotLength \div 1000000

\* the last return; the caller rules out a zero divisor
SlotTipShelley(c, g, currentTimeSec) ==
  U64Add(U64(byronSlots(c)),
         U64Div(U64Sub(U64(currentTimeSec), U64(byronEndTime(c))),
                ShelleySlotSeconds(g)))

getSlotTipRef(c, g, currentTimeSec) ==
  IF currentTimeSec < byronEndTime(c)
  THEN [panic |-> FALSE, slot |-> SlotTipByron(c, currentTimeSec)]
  ELSE IF ShelleySlotSeconds(g) = 0
  THEN [panic |-> TRUE, slot |-> U64(0)]
  ELSE [panic |-> FALSE, slot |-> SlotTipShelley(c, g, currentTimeSec)]

\* the status field of row 2 of getChainText for promMetrics.SlotNum = slotNum
ChainStatus(slotNum, tipRef) ==
  LET tipDiff == U64Sub(tipRef, slotNum)
  IN  IF slotNum = U64(0) THEN "starting"
      ELSE IF U64LessEq(tipDiff, U64(20)) THEN "tipDiffGood"
      ELSE IF U64LessEq(tipDiff, U64(600)) THEN "tipDiffLate"
      ELSE "syncing"

\* the chain text before the first render
NoStatus == [SlotNum |-> U64(0), status |-> "none"]

\* getEpoch at currentTimeSec; a zero Byron epoch or slot length panics
getEpoch(c, currentTimeSec) ==
  IF c.Node.ByronGenesis.EpochLength = 0 \/ c.Node.ByronGenesis.SlotLength = 0
  THEN [panic |-> TRUE, epoch |-> U64(0)]
  ELSE [panic |-> FALSE,
        epoch |-> U64Add(U64(c.Node.ShelleyTransEpoch),
                         U64Div(U64Div(U64Sub(U64(currentTimeSec),
                                              U64(byronEndTime(c))),
                                       c.Node.ByronGenesis.EpochLength),
                                c.Node.ByronGenesis.SlotLength))]

\* timeUntilNextEpoch at currentTimeSec, the sum taken left to right
timeUntilNextEpoch(c, currentTimeSec) ==
  LET ste == U64(c.Node.ShelleyTransEpoch)
      bgel == c.Node.ByronGenesis.EpochLength
      bgsl == c.Node.ByronGenesis.SlotLength
      byronLength == U64Div(U64Mul(U64Mul(ste, bgel), bgsl), 1000)
      e == getEpoch(c, currentTimeSec)
      epochs == U64Sub(U64Add(e.epoch, U64(1)), ste)
  IN  [panic |-> e.panic,
       seconds |-> U64Add(U64Sub(U64Add(byronLength,
                                        U64Mul(U64Mul(epochs, bgel), bgsl)),
                                 U64(currentTimeSec)),
                          U64(c.Node.ByronGenesis.StartTime))]

\* ------------------------------------------------------------------- state
VARIABLES
  connections,     \* the ids of the rows of the TCP table of the node process
  publicIP,        \* publicIP (NilIP when the lookup failed)
  cfgBinary,       \* cfg.Node.Binary
  cfgNode,         \* cfg.Node.ShelleyTransEpoch and the epoch lengths
  processMetrics,  \* "nil" or "proc"
  promMetrics,     \* NilMetrics or the last stored snapshot
  failCount,       \* failCount
  exitReason,      \* "none" while the process runs, else why it died
  peersFiltered,   \* peersFiltered
  peerStats,       \* peerStats
  checkPeers,      \* checkPeers
  scrollPeers,     \* scrollPeers
  pingPc,          \* position of the "Ping peers" goroutine
  pingPass,        \* locals of pingPeers: peerCount, the ranged slice, the index
                   \* of the next iteration, the iterations whose goroutine runs
  refreshPc,       \* position of the background refresh goroutine
  keyPc,           \* position of the input capture inside its r/h branch
  epochProgress,   \* the epoch progress last computed by getEpochProgress
  now,             \* wall clock in seconds
  lastOp,          \* the step taken last and its outcome
  cfgInput,        \* cfg of LoadConfig after the file and the environment
  globalConfig,    \* globalConfig
  loadResult,      \* "none" before LoadConfig returns, then "ok" or "err"
  slotTipRef,      \* the slot number last computed by getSlotTipRef
  chainStatus,     \* the slot and the status the chain text last showed
  epochTimeLeft    \* the seconds last computed by timeUntilNextEpoch

vars == <<connections, publicIP, cfgBinary, cfgNode, processMetrics, promMetrics,
          failCount, exitReason, peersFiltered, peerStats, checkPeers, scrollPeers,
          pingPc, pingPass, refreshPc, keyPc, epochProgress, now, lastOp,
          cfgInput, globalConfig, loadResult, slotTipRef, chainStatus,
          epochTimeLeft>>

\* what LoadConfig works on and the slot estimate
startupVars == <<cfgInput, globalConfig, loadResult, slotTipRef, chainStatus,
                  epochTimeLeft>>

Op(op, how) == [op |-> op, how |-> how]
NoPass == [peerCount |-> 0, list |-> <<>>, idx |-> 1, flight |-> {}]
Running == exitReason = "none"

\* the state main() builds before it starts the goroutines
InitRuntime ==
  /\ connections = {}
  /\ processMetrics = "nil"
  /\ failCount = 0
  /\ exitReason = "none"
  /\ peersFiltered = <<>>
  /\ peerStats = InitPeerStats
  /\ checkPeers = TRUE
  /\ scrollPeers = FALSE
  /\ pingPc = "idle"
  /\ pingPass = NoPass
  /\ refreshPc = "check"
  /\ keyPc = "idle"
  /\ epochProgress = F32Zero
  /\ lastOp = Op("init", "")

\* the same with the default configuration loaded
InitCommon ==
  /\ InitRuntime
  /\ now = 0
  /\ cfgInput = getDefaultConfig
  /\ globalConfig = LoadConfig(getDefaultConfig, "ok").cfg
  /\ loadResult = "ok"
  /\ slotTipRef = U64(0)
  /\ chainStatus = NoStatus
  /\ epochTimeLeft = U64(0)

Init ==
  /\ InitCommon
  /\ publicIP \in {NilIP, IP_Public}
  /\ cfgBinary \in {CARDANO_BINARY, AMARU_BINARY}
  /\ cfgNode = PollCfgNode
  /\ promMetrics = NilMetrics

\* ------------------------------------------------------------- environment
\* connections open and close
NetChange(t) ==
  /\ Running
  /\ UNCHANGED <<startupVars, keyPc>>
  /\ t # connections
  /\ connections' = t
  /\ lastOp' = Op("net", "")
  /\ UNCHANGED <<publicIP, cfgBinary, cfgNode, processMetrics, promMetrics, failCount,
                 exitReason, peersFiltered, peerStats, checkPeers, scrollPeers,
                 pingPc, pingPass, refreshPc, epochProgress, now>>

\* time passes
Tick ==
  /\ Running
  /\ UNCHANGED <<startupVars, keyPc>>
  /\ now < MaxTicks * TickSeconds
  /\ now' = now + TickSeconds
  /\ lastOp' = Op("tick", "")
  /\ UNCHANGED <<connections, publicIP, cfgBinary, cfgNode, processMetrics, promMetrics,
                 failCount, exitReason, peersFiltered, peerStats, checkPeers,
                 scrollPeers, pingPc, pingPass, refreshPc, epochProgress>>

\* ------------------------------------------------------------ polling tasks
\* getProcessMetrics: osOk says that every OS call succeeds and that the
\* process of the pid file is running
getProcessMetricsByPidFile(osOk) ==
  IF osOk THEN [proc |-> "proc", err |-> FALSE] ELSE [proc |-> "nil", err |-> TRUE]

getProcessMetricsByNameAndPort(osOk) == [proc |-> "nil", err |-> TRUE]

getProcessMetrics(binary, osOk) ==
  IF binary = AMARU_BINARY THEN getProcessMetricsByPidFile(osOk)
  ELSE getProcessMetricsByNameAndPort(osOk)

\* one cycle of the "Update Process metrics" goroutine
ProcPoll(osOk) ==
  /\ Running
  /\ UNCHANGED <<startupVars, keyPc>>
  /\ LET r == getProcessMetrics(cfgBinary, osOk)
     IN  IF r.err
         THEN /\ failCount < MaxFail
              /\ failCount' = failCount + 1
              /\ lastOp' = Op("proc", "err")
              /\ UNCHANGED processMetrics
         ELSE /\ processMetrics' = r.proc
              /\ lastOp' = Op("proc", "ok")
              /\ UNCHANGED failCount
  /\ UNCHANGED <<connections, publicIP, cfgBinary, cfgNode, promMetrics, exitReason,
                 peersFiltered, peerStats, checkPeers, scrollPeers, pingPc, pingPass,
                 refreshPc, epochProgress, now>>

\* where one call of getPromMetrics ends
PromOutcomes == {"fetchErr", "httpErr", "prom2jsonErr", "unmarshalErr", "ok"}

\* getPromMetrics: m is what json.Unmarshal decodes (in full when o = "ok",
\* as far as it got when o = "unmarshalErr"); fc is failCount at the call
getPromMetrics(o, m, fc) ==
  IF o = "ok" THEN [metrics |-> m, err |-> FALSE, failCount |-> 0]
  ELSE IF o = "unmarshalErr" THEN [metrics |-> m, err |-> TRUE, failCount |-> fc + 1]
  ELSE [metrics |-> NilMetrics, err |-> TRUE, failCount |-> fc + 1]

\* one cycle of the "Fetch data from Prometheus" goroutine
PromPoll(o, m) ==
  /\ Running
  /\ UNCHANGED <<startupVars, keyPc>>
  /\ LET r == getPromMetrics(o, m, failCount)
     IN  IF r.err /\ ~r.metrics.isNil
         THEN /\ r.failCount + 1 <= MaxFail
              /\ failCount' = r.failCount + 1
              /\ UNCHANGED promMetrics
         ELSE /\ r.failCount <= MaxFail
              /\ failCount' = r.failCount
              /\ promMetrics' = r.metrics
  /\ lastOp' = Op("prom", o)
  /\ UNCHANGED <<connections, publicIP, cfgBinary, cfgNode, processMetrics, exitReason,
                 peersFiltered, peerStats, checkPeers, scrollPeers, pingPc, pingPass,
                 refreshPc, epochProgress, now>>

\* one cycle of the "Filter peers" goroutine: filterPeers and the error
\* handling of its loop; connErr says that ConnectionsPidWithContext fails
FilterPeers(connErr) ==
  /\ Running
  /\ UNCHANGED <<startupVars, keyPc>>
  /\ IF /\ Len(peerStats.RTTresultsSlice) # 0
        /\ Len(peerStats.RTTresultsSlice) = Len(peersFiltered)
     THEN /\ lastOp' = Op("filter", "upToDate")
          /\ UNCHANGED <<failCount, peersFiltered, exitReason>>
     ELSE IF processMetrics = "nil"
     THEN /\ lastOp' = Op("filter", "noProcess")
          /\ UNCHANGED <<failCount, peersFiltered, exitReason>>
     ELSE IF connErr
     THEN /\ failCount < MaxFail
          /\ failCount' = failCount + 1
          /\ lastOp' = Op("filter", "connErr")
          /\ UNCHANGED <<peersFiltered, exitReason>>
     ELSE LET rows == TableRows(connections)
              r == BuildPeers(rows, publicIP)
          IN  IF PeersIn(rows) = <<>> /\ PeersOut(rows) = <<>>
              THEN /\ failCount' = 0
                   /\ lastOp' = Op("filter", "noPeers")
                   /\ UNCHANGED <<peersFiltered, exitReason>>
              ELSE IF r.panicked
              THEN /\ exitReason' = "indexPanic"
                   /\ lastOp' = Op("filter", "panic")
                   /\ UNCHANGED <<failCount, peersFiltered>>
              ELSE /\ peersFiltered' = ReplaceSnapshot(r.peers, peersFiltered)
                   /\ lastOp' = Op("filter", "built")
                   /\ UNCHANGED <<failCount, exitReason>>
  /\ UNCHANGED <<connections, publicIP, cfgBinary, cfgNode, processMetrics, promMetrics,
                 peerStats, checkPeers, scrollPeers, pingPc, pingPass, refreshPc,
                 epochProgress, now>>

\* ----------------------------------------------------------------- pingPeers
\* entry of pingPeers: a pass starts when checkPeers is set and takes
\* peerCount, otherwise the call returns nil at once and its loop finds no
\* error
PingStart ==
  /\ Running
  /\ UNCHANGED <<startupVars, keyPc>>
  /\ pingPc = "idle"
  /\ scrollPeers' = FALSE
  /\ IF checkPeers
     THEN /\ pingPass' = [peerCount |-> Len(peersFiltered), list |-> <<>>, idx |-> 1,
                           flight |-> {}]
          /\ pingPc' = "range"
          /\ lastOp' = Op("pingStart", "pass")
          /\ UNCHANGED failCount
     ELSE /\ failCount' = 0
          /\ lastOp' = Op("pingStart", "noCheck")
          /\ UNCHANGED <<pingPass, pingPc>>
  /\ UNCHANGED <<connections, publicIP, cfgBinary, cfgNode, processMetrics, promMetrics,
                 exitReason, peersFiltered, peerStats, checkPeers, refreshPc,
                 epochProgress, now>>

\* "for _, v := range peersFiltered": the range expression is evaluated once,
\* here, in a read of the global of its own, after peerCount was taken
PingRange ==
  /\ Running
  /\ UNCHANGED <<startupVars, keyPc>>
  /\ pingPc = "range"
  /\ pingPass' = [pingPass EXCEPT !.list = peersFiltered]
  /\ pingPc' = "loop"
  /\ lastOp' = Op("pingRange", "")
  /\ UNCHANGED <<connections, publicIP, cfgBinary, cfgNode, processMetrics, promMetrics,
                 failCount, exitReason, peersFiltered, peerStats, checkPeers,
                 scrollPeers, refreshPc, epochProgress, now>>

\* a loop that launches every goroutine before it waits for any
WaitReturnsAtOnce(flight) == TRUE

\* wg.Wait() returns once no goroutine that was added is running
WaitReturns(flight) == flight = {}

\* one iteration of the loop: wg.Add(1) and "go func()" for the next peer;
\* the wg.Wait() that ends the iteration holds the loop back from the next
\* iteration, so it is the guard of the step that comes after it
PingGo ==
  /\ Running
  /\ UNCHANGED <<startupVars, keyPc>>
  /\ pingPc = "loop"
  /\ pingPass.idx <= Len(pingPass.list)
  /\ WaitReturns(pingPass.flight)
  /\ pingPass' = [pingPass EXCEPT !.flight = @ \cup {pingPass.idx}, !.idx = @ + 1]
  /\ lastOp' = Op("pingGo", "")
  /\ UNCHANGED <<connections, publicIP, cfgBinary, cfgNode, processMetrics, promMetrics,
                 failCount, exitReason, peersFiltered, peerStats, checkPeers,
                 scrollPeers, pingPc, refreshPc, epochProgress, now>>

\* the goroutine of one peer returns early
PingSkip ==
  /\ Running
  /\ UNCHANGED <<startupVars, keyPc>>
  /\ pingPc = "loop"
  /\ \E k \in pingPass.flight :
       /\ SkipProbe(peerStats.RTTresultsMap, EntryIP(pingPass.list[k]), now)
       /\ pingPass' = [pingPass EXCEPT !.flight = @ \ {k}]
  /\ lastOp' = Op("probe", "skip")
  /\ UNCHANGED <<connections, publicIP, cfgBinary, cfgNode, processMetrics, promMetrics,
                 failCount, exitReason, peersFiltered, peerStats, checkPeers,
                 scrollPeers, pingPc, refreshPc, epochProgress, now>>

\* the goroutine of one peer probes it and records the result
PingProbe(o) ==
  /\ Running
  /\ UNCHANGED <<startupVars, keyPc>>
  /\ pingPc = "loop"
  /\ Len(peerStats.RTTresultsSlice) < MaxResults
  /\ \E k \in pingPass.flight :
       /\ ~SkipProbe(peerStats.RTTresultsMap, EntryIP(pingPass.list[k]), now)
       /\ peerStats' = ProbePeer(peerStats, pingPass.list[k], o, now)
       /\ pingPass' = [pingPass EXCEPT !.flight = @ \ {k}]
  /\ lastOp' = Op("probe", o.stage)
  /\ UNCHANGED <<connections, publicIP, cfgBinary, cfgNode, processMetrics, promMetrics,
                 failCount, exitReason, peersFiltered, checkPeers, scrollPeers,
                 pingPc, refreshPc, epochProgress, now>>

\* the code after the loop of pingPeers, the return of nil and the loop of
\* the goroutine that finds no error
PingFinish ==
  /\ Running
  /\ UNCHANGED <<startupVars, keyPc>>
  /\ pingPc = "loop"
  /\ pingPass.idx > Len(pingPass.list)
  /\ WaitReturns(pingPass.flight)
  /\ LET agg == Aggregate(peerStats, pingPass.peerCount)
     IN  /\ peerStats' = agg
         /\ IF PassComplete(agg, pingPass.peerCount)
            THEN /\ checkPeers' = FALSE
                 /\ scrollPeers' = TRUE
                 /\ lastOp' = Op("pingFinish", "done")
            ELSE /\ lastOp' = Op("pingFinish", "again")
                 /\ UNCHANGED <<checkPeers, scrollPeers>>
  /\ failCount' = 0
  /\ pingPc' = "idle"
  /\ pingPass' = NoPass
  /\ UNCHANGED <<connections, publicIP, cfgBinary, cfgNode, processMetrics, promMetrics,
                 exitReason, peersFiltered, refreshPc, epochProgress, now>>

\* the operator presses p: resetPeers, checkPeers = true, scrollPeers = false
KeyP ==
  /\ Running
  /\ UNCHANGED <<startupVars, keyPc>>
  /\ keyPc = "idle"
  /\ peerStats' = ResetStats(peerStats)
  /\ peersFiltered' = <<>>
  /\ checkPeers' = TRUE
  /\ scrollPeers' = FALSE
  /\ lastOp' = Op("keyP", "")
  /\ UNCHANGED <<connections, publicIP, cfgBinary, cfgNode, processMetrics, promMetrics,
                 failCount, exitReason, pingPc, pingPass, refreshPc, epochProgress, now>>

\* the peer of the goroutine that runs
FlightEntry == pingPass.list[CHOOSE k \in pingPass.flight : TRUE]

\* ------------------------------------------------- background refresh timer
\* a threshold check that fires only above the threshold; C4 fails under it
RefreshCheckAboveOnly ==
  /\ Running
  /\ UNCHANGED <<startupVars, keyPc>>
  /\ refreshPc = "check"
  /\ IF failCount > Retries
     THEN /\ exitReason' = "retries"
          /\ lastOp' = Op("refreshCheck", "panic")
          /\ UNCHANGED refreshPc
     ELSE /\ refreshPc' = "texts"
          /\ lastOp' = Op("refreshCheck", "pass")
          /\ UNCHANGED exitReason
  /\ UNCHANGED <<connections, publicIP, cfgBinary, cfgNode, processMetrics, promMetrics,
                 failCount, peersFiltered, peerStats, checkPeers, scrollPeers, pingPc,
                 pingPass, epochProgress, now>>

\* top of the loop: the retry-threshold check
RefreshCheck ==
  /\ Running
  /\ UNCHANGED <<startupVars, keyPc>>
  /\ refreshPc = "check"
  /\ IF failCount >= Retries
     THEN /\ exitReason' = "retries"
          /\ lastOp' = Op("refreshCheck", "panic")
          /\ UNCHANGED refreshPc
     ELSE /\ refreshPc' = "texts"
          /\ lastOp' = Op("refreshCheck", "pass")
          /\ UNCHANGED exitReason
  /\ UNCHANGED <<connections, publicIP, cfgBinary, cfgNode, processMetrics, promMetrics,
                 failCount, peersFiltered, peerStats, checkPeers, scrollPeers, pingPc,
                 pingPass, epochProgress, now>>

\* failCount after getResourceText; resErr: CPUPercent or MemoryInfo fails
getResourceText(fc, proc, pm, resErr) ==
  IF proc = "nil" \/ pm.isNil THEN fc ELSE IF resErr THEN fc + 1 ELSE fc

\* failCount after getCoreText
getCoreText(fc, pm) == IF pm.isNil THEN fc ELSE 0

\* failCount after getBlockText; term: what terminal.GetSize reports
getBlockText(fc, pm, term) ==
  IF pm.isNil THEN fc
  ELSE IF term = "err" THEN fc + 1
  ELSE IF term = "small" THEN fc
  ELSE 0

\* failCount after getPeerText
getPeerText(fc, proc, check) == IF proc = "nil" \/ check THEN fc ELSE 0

\* getNodeText .. getCoreText, getEpochText and the nil check that opens
\* getChainText
RefreshTexts(resErr) ==
  /\ Running
  /\ UNCHANGED <<startupVars, keyPc>>
  /\ refreshPc = "texts"
  /\ LET fc == getCoreText(getResourceText(failCount, processMetrics, promMetrics, resErr),
                           promMetrics)
     IN  /\ fc <= MaxFail
         /\ failCount' = fc
  /\ epochProgress' = getEpochProgress(cfgNode, promMetrics)
  /\ refreshPc' = IF promMetrics.isNil THEN "texts2" ELSE "chain"
  /\ lastOp' = Op("refreshTexts", IF promMetrics.isNil THEN "noMetrics" ELSE "metrics")
  /\ UNCHANGED <<connections, publicIP, cfgBinary, cfgNode, processMetrics, promMetrics,
                 exitReason, peersFiltered, peerStats, checkPeers, scrollPeers, pingPc,
                 pingPass, now>>

\* the body of getChainText behind its nil check: it reads the fields of
\* the global promMetrics again, which the fetch goroutine may have replaced
\* without synchronisation; reload says that the build reads the global
\* again rather than reusing the pointer it tested
RefreshChain(reload) ==
  /\ Running
  /\ UNCHANGED <<startupVars, keyPc>>
  /\ refreshPc = "chain"
  /\ IF promMetrics.isNil /\ reload
     THEN /\ exitReason' = "nilDeref"
          /\ lastOp' = Op("refreshChain", "panic")
          /\ UNCHANGED refreshPc
     ELSE /\ refreshPc' = "texts2"
          /\ lastOp' = Op("refreshChain", "ok")
          /\ UNCHANGED exitReason
  /\ UNCHANGED <<connections, publicIP, cfgBinary, cfgNode, processMetrics, promMetrics,
                 failCount, peersFiltered, peerStats, checkPeers, scrollPeers, pingPc,
                 pingPass, epochProgress, now>>

TermOutcomes == {"err", "small", "ok"}

\* scrollPeers after getPeerText and the update of the peer view; changed
\* says that the text differs from the one displayed
peerTextScroll(scroll, proc, check, changed) ==
  IF proc = "nil" THEN scroll
  ELSE IF check THEN FALSE
  ELSE IF changed THEN FALSE
  ELSE scroll

\* getBlockText and getPeerText, then the sleep
RefreshTexts2(term, changed) ==
  /\ Running
  /\ UNCHANGED <<startupVars, keyPc>>
  /\ refreshPc = "texts2"
  /\ LET fc == getPeerText(getBlockText(failCount, promMetrics, term),
                           processMetrics, checkPeers)
     IN  /\ fc <= MaxFail
         /\ failCount' = fc
  /\ scrollPeers' = peerTextScroll(scrollPeers, processMetrics, checkPeers, changed)
  /\ refreshPc' = "check"
  /\ lastOp' = Op("refreshTexts2", "")
  /\ UNCHANGED <<connections, publicIP, cfgBinary, cfgNode, processMetrics, promMetrics,
                 exitReason, peersFiltered, peerStats, checkPeers, pingPc,
                 pingPass, epochProgress, now>>

\* --------------------------------------------------------- the r and h keys
\* the operator presses r or h: setRole, resetPeers, checkPeers = true, then
\* the texts as far as the nil check that opens getChainText
KeyR(resErr) ==
  /\ Running
  /\ UNCHANGED startupVars
  /\ keyPc = "idle"
  /\ peerStats' = ResetStats(peerStats)
  /\ peersFiltered' = <<>>
  /\ checkPeers' = TRUE
  /\ LET fc == getCoreText(getResourceText(failCount, processMetrics, promMetrics, resErr),
                           promMetrics)
     IN  /\ fc <= MaxFail
         /\ failCount' = fc
  /\ epochProgress' = getEpochProgress(cfgNode, promMetrics)
  /\ keyPc' = IF promMetrics.isNil THEN "texts2" ELSE "chain"
  /\ lastOp' = Op("keyR", IF promMetrics.isNil THEN "noMetrics" ELSE "metrics")
  /\ UNCHANGED <<connections, publicIP, cfgBinary, cfgNode, processMetrics, promMetrics,
                 exitReason, scrollPeers, pingPc, pingPass, refreshPc, now>>

\* the body of getChainText in the r/h branch, with the reads of the global
\* promMetrics that RefreshChain describes
KeyRChain(reload) ==
  /\ Running
  /\ UNCHANGED startupVars
  /\ keyPc = "chain"
  /\ IF promMetrics.isNil /\ reload
     THEN /\ exitReason' = "nilDeref"
          /\ lastOp' = Op("keyRChain", "panic")
          /\ UNCHANGED keyPc
     ELSE /\ keyPc' = "texts2"
          /\ lastOp' = Op("keyRChain", "ok")
          /\ UNCHANGED exitReason
  /\ UNCHANGED <<connections, publicIP, cfgBinary, cfgNode, processMetrics, promMetrics,
                 failCount, peersFiltered, peerStats, checkPeers, scrollPeers, pingPc,
                 pingPass, refreshPc, epochProgress, now>>

\* getBlockText and getPeerText in the r/h branch; the handler returns
KeyRTexts2(term, changed) ==
  /\ Running
  /\ UNCHANGED startupVars
  /\ keyPc = "texts2"
  /\ LET fc == getPeerText(getBlockText(failCount, promMetrics, term),
                           processMetrics, checkPeers)
     IN  /\ fc <= MaxFail
         /\ failCount' = fc
  /\ scrollPeers' = peerTextScroll(scrollPeers, processMetrics, checkPeers, changed)
  /\ keyPc' = "idle"
  /\ lastOp' = Op("keyRTexts2", "")
  /\ UNCHANGED <<connections, publicIP, cfgBinary, cfgNode, processMetrics, promMetrics,
                 exitReason, peersFiltered, peerStats, checkPeers, pingPc, pingPass,
                 refreshPc, epochProgress, now>>

\* ------------------------------------------------------------ specification
Next ==
  \/ \E t \in ConnTables : NetChange(t)
  \/ Tick
  \/ \E osOk \in BOOLEAN : ProcPoll(osOk)
  \/ \E o \in PromOutcomes, m \in PromSamples : PromPoll(o, m)
  \/ \E connErr \in BOOLEAN : FilterPeers(connErr)
  \/ PingStart
  \/ PingRange
  \/ PingGo
  \/ PingSkip
  \/ \E o \in ProbeOutcomes : PingProbe(o)
  \/ PingFinish
  \/ KeyP
  \/ \E resErr \in BOOLEAN : KeyR(resErr)
  \/ \E reload \in BOOLEAN : KeyRChain(reload)
  \/ \E term \in TermOutcomes, changed \in BOOLEAN : KeyRTexts2(term, changed)
  \/ RefreshCheck
  \/ \E resErr \in BOOLEAN : RefreshTexts(resErr)
  \/ \E reload \in BOOLEAN : RefreshChain(reload)
  \/ \E term \in TermOutcomes, changed \in BOOLEAN : RefreshTexts2(term, changed)

Spec == Init /\ [][Next]_vars

\* ------------------------------------------------ discovery specification
\* discovery over every connection table, the process lookup and the
\* operator's reset; no probe runs, so the result list stays empty.  The OS
\* calls succeed (the lookup by name and port fails nevertheless); their
\* failures are part of the polling specification.
NextDiscovery ==
  \/ \E t \in ConnTables : NetChange(t)
  \/ \E osOk \in {TRUE} : ProcPoll(osOk)
  \/ \E connErr \in {FALSE} : FilterPeers(connErr)
  \/ KeyP

SpecDiscovery == Init /\ [][NextDiscovery]_vars

\* -------------------------------------------------- probing specification
\* the connections of the probing specification: peers only
PeerConnIds == {1, 2, 3}
PeerTables == {t \in ConnTables : t \subseteq PeerConnIds}

InitProbe ==
  /\ InitCommon
  /\ publicIP = IP_Public
  /\ cfgBinary = AMARU_BINARY
  /\ cfgNode = PollCfgNode
  /\ promMetrics = NilMetrics

\* discovery and probing run concurrently while connections come and go
NextProbe ==
  \/ \E t \in PeerTables : NetChange(t)
  \/ \E osOk \in {TRUE} : ProcPoll(osOk)
  \/ \E connErr \in {FALSE} : FilterPeers(connErr)
  \/ PingStart
  \/ PingRange
  \/ PingGo
  \/ PingSkip
  \/ \E o \in ProbeOutcomes : PingProbe(o)
  \/ PingFinish

SpecProbe == InitProbe /\ [][NextProbe]_vars

\* -------------------------------------------------- polling specification
\* the connections and probe results of the polling specification
PollTables == {t \in ConnTables : t = {} \/ t = {1, 2}}
PollProbeOutcomes ==
  {[stage |-> "connectFail", rtt |-> 0], [stage |-> "optionFail", rtt |-> 0],
   [stage |-> "decodeErr", rtt |-> 70]}

InitPoll ==
  /\ InitCommon
  /\ publicIP = IP_Public
  /\ cfgBinary = AMARU_BINARY
  /\ cfgNode = PollCfgNode
  /\ promMetrics = NilMetrics

\* the four polling goroutines and the background refresh timer
NextPoll ==
  \/ \E t \in PollTables : NetChange(t)
  \/ \E osOk \in BOOLEAN : ProcPoll(osOk)
  \/ \E o \in PromOutcomes, m \in PromSamples : PromPoll(o, m)
  \/ \E connErr \in BOOLEAN : FilterPeers(connErr)
  \/ PingStart
  \/ PingRange
  \/ PingGo
  \/ PingSkip
  \/ \E o \in PollProbeOutcomes : PingProbe(o)
  \/ PingFinish
  \/ RefreshCheck
  \/ \E resErr \in BOOLEAN : RefreshTexts(resErr)
  \/ \E reload \in BOOLEAN : RefreshChain(reload)
  \/ \E term \in TermOutcomes, changed \in BOOLEAN : RefreshTexts2(term, changed)

SpecPoll == InitPoll /\ [][NextPoll]_vars

\* ------------------------------------------------ re-check specification
\* the connections, probe results and metrics of the re-check specification
CycleTables == {t \in PeerTables : t = {3} \/ t = {1, 3}}
CycleProbeOutcomes ==
  {[stage |-> "connectFail", rtt |-> 0], [stage |-> "decodeErr", rtt |-> 70]}
CycleProm == {Metrics(1, 1)}

InitCycle ==
  /\ InitCommon
  /\ publicIP = IP_Public
  /\ cfgBinary = AMARU_BINARY
  /\ cfgNode = PollCfgNode
  /\ promMetrics = NilMetrics

\* discovery and probing while the operator asks for re-checks; the OS
\* calls, the terminal and the metrics fetch succeed
NextCycle ==
  \/ \E t \in CycleTables : NetChange(t)
  \/ \E osOk \in {TRUE} : ProcPoll(osOk)
  \/ \E o \in {"ok"}, m \in CycleProm : PromPoll(o, m)
  \/ \E connErr \in {FALSE} : FilterPeers(connErr)
  \/ PingStart
  \/ PingRange
  \/ PingGo
  \/ PingSkip
  \/ \E o \in CycleProbeOutcomes : PingProbe(o)
  \/ PingFinish
  \/ KeyP
  \/ \E resErr \in {FALSE} : KeyR(resErr)
  \/ \E reload \in BOOLEAN : KeyRChain(reload)
  \/ \E term \in {"ok"}, changed \in BOOLEAN : KeyRTexts2(term, changed)

SpecCycle == InitCycle /\ [][NextCycle]_vars

\* ------------------------------------------ fixed-peers specification
\* the remote addresses of a table
TableIPs(t) == {ConnUniverse[i].RaddrIP : i \in t}
\* the non-empty peer tables whose remote addresses are pairwise distinct
FixedTables == {t \in PeerTables : t # {} /\ Cardinality(TableIPs(t)) = Cardinality(t)}

\* the state main() builds, with the node's connections already open
InitFixed ==
  /\ connections \in FixedTables
  /\ processMetrics = "nil"
  /\ failCount = 0
  /\ exitReason = "none"
  /\ peersFiltered = <<>>
  /\ peerStats = InitPeerStats
  /\ checkPeers = TRUE
  /\ scrollPeers = FALSE
  /\ pingPc = "idle"
  /\ pingPass = NoPass
  /\ refreshPc = "check"
  /\ keyPc = "idle"
  /\ epochProgress = F32Zero
  /\ lastOp = Op("init", "")
  /\ now = 0
  /\ cfgInput = getDefaultConfig
  /\ globalConfig = LoadConfig(getDefaultConfig, "ok").cfg
  /\ loadResult = "ok"
  /\ slotTipRef = U64(0)
  /\ chainStatus = NoStatus
  /\ epochTimeLeft = U64(0)
  /\ publicIP = IP_Public
  /\ cfgBinary \in {CARDANO_BINARY, AMARU_BINARY}
  /\ cfgNode = PollCfgNode
  /\ promMetrics = NilMetrics

\* the operator asks for a re-check once the analysis is done
KeyPWhenDone == ~checkPeers /\ KeyP

\* the process lookup, discovery and probing over a connection table that
\* never changes; the OS calls succeed and every probe returns
NextFixed ==
  \/ \E osOk \in {TRUE} : ProcPoll(osOk)
  \/ \E connErr \in {FALSE} : FilterPeers(connErr)
  \/ PingStart
  \/ PingRange
  \/ PingGo
  \/ PingSkip
  \/ \E o \in ProbeOutcomes : PingProbe(o)
  \/ PingFinish
  \/ KeyPWhenDone

\* a step of one goroutine, told by the operation that lastOp records
ProcTurn == Running /\ lastOp' \in {Op("proc", how) : how \in {"ok", "err"}}
FilterTurn ==
  /\ Running
  /\ lastOp' \in {Op("filter", how) :
                   how \in {"upToDate", "noProcess", "connErr", "noPeers", "panic", "built"}}
PingTurn ==
  /\ Running
  /\ lastOp' \in {Op("pingStart", how) : how \in {"pass", "noCheck"}}
              \cup {Op("pingRange", ""), Op("pingGo", "")}
              \cup {Op("probe", how) : how \in {"skip"} \cup {o.stage : o \in ProbeOutcomes}}
              \cup {Op("pingFinish", how) : how \in {"done", "again"}}

\* each goroutine is a loop of a call and a sleep that never ends, so each
\* one takes its next step again and again; nothing obliges the operator to
\* press a key
FairFixed ==
  /\ WF_lastOp(ProcTurn)
  /\ WF_lastOp(FilterTurn)
  /\ WF_lastOp(PingTurn)

SpecFixed == InitFixed /\ [][NextFixed]_vars /\ FairFixed

\* ------------------------------------------------ re-probe specification
\* two connections of one address without a location, or one connection of
\* a located address
SkipTables == {t \in PeerTables : t = {1, 2} \/ t = {3}}
\* an unreachable peer, a measured RTT and an RTT of 0 ms
SkipProbeOutcomes ==
  {[stage |-> "connectFail", rtt |-> 0], [stage |-> "decodeErr", rtt |-> 70],
   [stage |-> "decodeErr", rtt |-> 0]}

\* discovery and probing while connections come and go and time passes
NextSkip ==
  \/ \E t \in SkipTables : NetChange(t)
  \/ Tick
  \/ \E osOk \in {TRUE} : ProcPoll(osOk)
  \/ \E connErr \in {FALSE} : FilterPeers(connErr)
  \/ PingStart
  \/ PingRange
  \/ PingGo
  \/ PingSkip
  \/ \E o \in SkipProbeOutcomes : PingProbe(o)
  \/ PingFinish

SpecSkip == InitProbe /\ [][NextSkip]_vars

\* ------------------------------------------ failing-lookup specification
InitLookupFails ==
  /\ InitCommon
  /\ publicIP = IP_Public
  /\ cfgBinary \in {CARDANO_BINARY, AMARU_BINARY}
  /\ cfgNode = PollCfgNode
  /\ promMetrics = NilMetrics

\* every cycle of the process lookup fails; the metrics fetch, the
\* terminal and the other OS calls succeed; no peer is ever discovered, so
\* every pass of pingPeers ranges over an empty list
NextLookupFails ==
  \/ \E osOk \in {FALSE} : ProcPoll(osOk)
  \/ \E o \in {"ok"}, m \in CycleProm : PromPoll(o, m)
  \/ \E connErr \in {FALSE} : FilterPeers(connErr)
  \/ PingStart
  \/ PingRange
  \/ PingFinish
  \/ RefreshCheck
  \/ \E resErr \in {FALSE} : RefreshTexts(resErr)
  \/ \E reload \in {FALSE} : RefreshChain(reload)
  \/ \E term \in {"ok"}, changed \in BOOLEAN : RefreshTexts2(term, changed)

PromTurn == Running /\ lastOp' \in {Op("prom", o) : o \in PromOutcomes}
RefreshTurn ==
  /\ Running
  /\ lastOp' \in {Op("refreshCheck", how) : how \in {"panic", "pass"}}
              \cup {Op("refreshTexts", how) : how \in {"noMetrics", "metrics"}}
              \cup {Op("refreshChain", how) : how \in {"panic", "ok"}}
              \cup {Op("refreshTexts2", "")}

\* every goroutine keeps taking its next step
FairLookupFails ==
  /\ WF_lastOp(ProcTurn)
  /\ WF_lastOp(PromTurn)
  /\ WF_lastOp(FilterTurn)
  /\ WF_lastOp(PingTurn)
  /\ WF_lastOp(RefreshTurn)

SpecLookupFails == InitLookupFails /\ [][NextLookupFails]_vars /\ FairLookupFails

\* ------------------------------------------- epoch progress specification
\* epoch numbers, slots and epoch lengths: the small ones, the mainnet
\* scenario (epoch 208, slot 100000 of 432000) and a pair beyond the
\* integers a float32 holds exactly
EpochNums == (0..MaxEpochNum) \cup {MainnetTransEpoch}
Slots == (0..MaxSlot) \cup {100000, 2^F32MantissaBits}
EpochLengths == (0..MaxEpochLength) \cup {MainnetEpochLength, 2^F32MantissaBits + 1}
EpochCfgs ==
  [ShelleyTransEpoch : (-2..(MaxEpochNum - 1)) \cup {MainnetTransEpoch},
   ShelleyEpochLength : EpochLengths,
   ByronEpochLength : EpochLengths]
EpochMetrics ==
  {NilMetrics} \cup {Metrics(e, s) : e \in EpochNums, s \in Slots}

InitEpoch ==
  /\ InitCommon
  /\ publicIP = NilIP
  /\ cfgBinary = CARDANO_BINARY
  /\ cfgNode \in EpochCfgs
  /\ promMetrics \in EpochMetrics

\* getEpochText calls getEpochProgress
EpochProgressStep ==
  /\ Running
  /\ UNCHANGED <<startupVars, keyPc>>
  /\ epochProgress' = getEpochProgress(cfgNode, promMetrics)
  /\ lastOp' = Op("epochProgress", "")
  /\ UNCHANGED <<connections, publicIP, cfgBinary, cfgNode, processMetrics, promMetrics,
                 failCount, exitReason, peersFiltered, peerStats, checkPeers,
                 scrollPeers, pingPc, pingPass, refreshPc, now>>

NextEpoch == EpochProgressStep

SpecEpoch == InitEpoch /\ [][NextEpoch]_vars

\* ---------------------------------------------- configuration specification
\* main() up to the return of LoadConfig: an error is printed and the process
\* exits with status 1
LoadConfigStep(io) ==
  /\ exitReason = "none"
  /\ loadResult = "none"
  /\ LET r == LoadConfig(cfgInput, io)
     IN  IF r.err # ""
         THEN /\ loadResult' = "err"
              /\ exitReason' = "configError"
              /\ lastOp' = Op("loadConfig", r.err)
              /\ UNCHANGED globalConfig
         ELSE /\ loadResult' = "ok"
              /\ globalConfig' = r.cfg
              /\ lastOp' = Op("loadConfig", "ok")
              /\ UNCHANGED exitReason
  /\ UNCHANGED <<connections, publicIP, cfgBinary, cfgNode, processMetrics, promMetrics,
                 failCount, peersFiltered, peerStats, checkPeers, scrollPeers, pingPc,
                 pingPass, refreshPc, keyPc, epochProgress, now, cfgInput, slotTipRef,
                 chainStatus, epochTimeLeft>>

InitConfig ==
  /\ InitRuntime
  /\ publicIP = NilIP
  /\ cfgBinary = CARDANO_BINARY
  /\ cfgNode = PollCfgNode
  /\ promMetrics = NilMetrics
  /\ cfgInput \in ConfigInputs
  /\ globalConfig = getDefaultConfig
  /\ loadResult = "none"
  /\ slotTipRef = U64(0)
  /\ chainStatus = NoStatus
  /\ epochTimeLeft = U64(0)
  /\ now = 0

NextConfig == \E io \in LoadOutcomes : LoadConfigStep(io)

SpecConfig == InitConfig /\ [][NextConfig]_vars

\* ---------------------------------------------- slot estimate specification
\* one render of the chain text for a metrics snapshot whose SlotNum is
\* slotNum: the tipRef computed from the loaded configuration, the genesis the
\* node reports and the clock, and the status of row 2; an integer division
\* by zero panics
SlotTipStep(g, slotNum) ==
  /\ exitReason = "none"
  /\ loadResult = "ok"
  /\ LET r == getSlotTipRef(globalConfig, g, now - 1)
     IN  IF r.panic
         THEN /\ exitReason' = "panic"
              /\ lastOp' = Op("slotTip", "panic")
              /\ UNCHANGED <<slotTipRef, chainStatus>>
         ELSE /\ slotTipRef' = r.slot
              /\ chainStatus' = [SlotNum |-> slotNum,
                                 status |-> ChainStatus(slotNum, r.slot)]
              /\ lastOp' = Op("slotTip", IF now - 1 < byronEndTime(globalConfig)
                                         THEN "byron" ELSE "shelley")
              /\ UNCHANGED exitReason
  /\ UNCHANGED <<connections, publicIP, cfgBinary, cfgNode, processMetrics, promMetrics,
                 failCount, peersFiltered, peerStats, checkPeers, scrollPeers, pingPc,
                 pingPass, refreshPc, keyPc, epochProgress, now, cfgInput, globalConfig,
                 loadResult, epochTimeLeft>>

\* one evaluation of timeLeft(timeUntilNextEpoch())
TimeLeftStep ==
  /\ exitReason = "none"
  /\ loadResult = "ok"
  /\ LET r == timeUntilNextEpoch(globalConfig, now - 1)
     IN  IF r.panic
         THEN /\ exitReason' = "panic"
              /\ lastOp' = Op("timeLeft", "panic")
              /\ UNCHANGED epochTimeLeft
         ELSE /\ epochTimeLeft' = r.seconds
              /\ lastOp' = Op("timeLeft", "")
              /\ UNCHANGED exitReason
  /\ UNCHANGED <<connections, publicIP, cfgBinary, cfgNode, processMetrics, promMetrics,
                 failCount, peersFiltered, peerStats, checkPeers, scrollPeers, pingPc,
                 pingPass, refreshPc, keyPc, epochProgress, now, cfgInput, globalConfig,
                 loadResult, slotTipRef, chainStatus>>

\* explicit genesis values of a configuration file, all lengths positive: small
\* ones and the Byron epoch of mainnet
SlotInputs ==
  {[getDefaultConfig EXCEPT
      !.Node.ShelleyTransEpoch = trans,
      !.Node.ByronGenesis = [StartTime |-> bst, EpochLength |-> bel, K |-> 1,
                             SlotLength |-> bsl]] :
     trans \in 0..MaxEpochNum, bst \in {5, 1000},
     bel \in (1..MaxEpochLength) \cup {MainnetByronEpochLength},
     bsl \in {300, 1000, 1500, 20000}}

\* the SlotLength of the genesis the node reports
GenesisResults == {[SlotLength |-> n] : n \in {500000, 1000000, 2000000}}

\* seconds around the end of the Byron era, the second before and the second
\* of its start, and a second far into the Shelley era
SlotClocks(c) ==
  ((byronEndTime(c) - 1)..(byronEndTime(c) + MaxSlot))
    \cup {c.Node.ByronGenesis.StartTime - 1, c.Node.ByronGenesis.StartTime,
          byronEndTime(c) + FarSeconds}

\* the SlotNum of the snapshot rendered: 0, the estimate itself, one slot
\* ahead of it, and the slots around the two thresholds behind it
SlotNums(tipRef) ==
  {U64(0), U64Add(tipRef, U64(1))}
    \cup {U64Sub(tipRef, U64(d)) : d \in {0, 20, 21, 600, 601}}

InitSlot ==
  /\ InitRuntime
  /\ publicIP = NilIP
  /\ cfgBinary = CARDANO_BINARY
  /\ cfgNode = PollCfgNode
  /\ promMetrics = NilMetrics
  /\ cfgInput \in SlotInputs
  /\ globalConfig = LoadConfig(cfgInput, "ok").cfg
  /\ loadResult = "ok"
  /\ slotTipRef = U64(0)
  /\ chainStatus = NoStatus
  /\ epochTimeLeft = U64(0)
  /\ now \in {t + 1 : t \in SlotClocks(globalConfig)}

NextSlot ==
  \/ \E g \in GenesisResults :
       \E slotNum \in SlotNums(getSlotTipRef(globalConfig, g, now - 1).slot) :
         SlotTipStep(g, slotNum)
  \/ TimeLeftStep

SpecSlot == InitSlot /\ [][NextSlot]_vars

\* ==================================================================== claims
\* the indices of the working-set entries of one remote IP
EntriesOf(ws, ip) == {k \in 1..Len(ws) : EntryIP(ws[k]) = ip}

\* list (peersIn or peersOut) holds a connection of ip that is not a
\* self-connection
SeenOn(list, ip, pubIP) ==
  \E k \in 1..Len(list) :
    LET p == Split(list[k], ":")
    IN  TrimBrackets(p[1]) = ip /\ ~IsSelf(TrimBrackets(p[1]), p[2], pubIP)

RemoteIPs == {IP_A, IP_B, IP_Public}

\* C1: at every moment the working set holds at most one entry per remote IP
\* address, whatever the connections to that address are.
C1_OneEntryPerIP ==
  \A i, j \in 1..Len(peersFiltered) :
    EntryIP(peersFiltered[i]) = EntryIP(peersFiltered[j]) => i = j

\* C2: a discovery pass that sees a remote IP on an inbound and on an
\* outbound connection leaves exactly one entry for that IP in the working
\* set, with direction i+o.  Stated for the pass that fills an empty working
\* set, where the result of the pass always replaces the working set.
C2_InOutCollapsesToDuplex ==
  [][(lastOp'.op = "filter" /\ lastOp'.how = "built" /\ peersFiltered = <<>>) =>
       LET rows == TableRows(connections)
       IN  \A ip \in RemoteIPs :
             (SeenOn(PeersIn(rows), ip, publicIP) /\ SeenOn(PeersOut(rows), ip, publicIP)) =>
               /\ Cardinality(EntriesOf(peersFiltered', ip)) = 1
               /\ \A k \in EntriesOf(peersFiltered', ip) :
                    EntryDir(peersFiltered'[k]) = DirDuplex]_vars

\* C3: whenever a probing pass has completed (checkPeers is cleared), the
\* five bucket counters add up to the number of peers of the working set.
C3_DoneCountsEveryPeer ==
  ~checkPeers =>
    peerStats.CNT0 + peerStats.CNT1 + peerStats.CNT2 + peerStats.CNT3 + peerStats.CNT4
      = Len(peersFiltered)

\* C4 (as the code has it): the refresh loop terminates the process on
\* account of polling failures exactly when its check finds the failure
\* counter at or above the retry threshold; below the threshold the loop goes
\* on, and no other step terminates on account of the threshold.
C4_TerminatesAtThreshold ==
  [][/\ (lastOp'.op = "refreshCheck" /\ failCount >= Retries) =>
          (exitReason' = "retries" /\ lastOp'.how = "panic")
     /\ (lastOp'.op = "refreshCheck" /\ failCount < Retries) =>
          (exitReason' = "none" /\ refreshPc' = "texts")
     /\ (exitReason' = "retries" /\ exitReason # "retries") =>
          lastOp'.op = "refreshCheck"]_vars

\* a threshold check has terminated the process with the counter equal to
\* the threshold
C4_Witness ==
  /\ lastOp = Op("refreshCheck", "panic")
  /\ exitReason = "retries"
  /\ failCount = Retries

\* C4 (as stated): the process is terminated exactly when the failure
\* counter exceeds the retry threshold; at or below the threshold the refresh
\* loop keeps running.
C4_TerminatesAboveThreshold ==
  [][/\ (lastOp'.op = "refreshCheck" /\ failCount > Retries) =>
          exitReason' = "retries"
     /\ (lastOp'.op = "refreshCheck" /\ failCount <= Retries) =>
          (exitReason' = "none" /\ refreshPc' = "texts")]_vars

\* C5: each failed polling cycle of a background task adds one to the
\* failure counter, and each successful polling cycle sets it to zero.  A
\* cycle of discovery or probing that returns nil is a successful one.
C5_CounterFollowsCycles ==
  [][/\ (lastOp'.op = "prom" /\ lastOp'.how # "ok") => failCount' = failCount + 1
     /\ (lastOp'.op = "prom" /\ lastOp'.how = "ok") => failCount' = 0
     /\ (lastOp'.op = "proc" /\ lastOp'.how = "err") => failCount' = failCount + 1
     /\ (lastOp'.op = "proc" /\ lastOp'.how = "ok") => failCount' = 0
     /\ (lastOp'.op = "filter" /\ lastOp'.how = "connErr") => failCount' = failCount + 1
     /\ (lastOp'.op = "filter" /\ lastOp'.how \in {"upToDate", "noProcess", "noPeers", "built"})
          => failCount' = 0
     /\ (lastOp'.op = "pingStart" /\ lastOp'.how = "noCheck") => failCount' = 0
     /\ lastOp'.op = "pingFinish" => failCount' = 0]_vars

\* C6: no failure of a single polling cycle terminates the process; the only
\* termination is the one of the retry-threshold check.
C6_OnlyThresholdTerminates == exitReason \in {"none", "retries"}

\* C7: a failed metrics fetch cycle leaves the last fetched snapshot and the
\* epoch progress derived from it as they were.
C7_FailedFetchKeepsSnapshot ==
  [][(lastOp'.op = "prom" /\ lastOp'.how # "ok") =>
       /\ promMetrics' = promMetrics
       /\ getEpochProgress(cfgNode, promMetrics') = getEpochProgress(cfgNode, promMetrics)]_vars

\* C8: a probe whose connect or socket-option read fails stores the
\* sentinel 99999 for the peer, adds one to CNT0 and nothing to CNT1..CNT4 or
\* RTTSUM, and no step of the probing task counts a failure or terminates.
C8_FailedProbeIsUnreachable ==
  [][/\ (lastOp'.op = "probe" /\ lastOp'.how \in {"connectFail", "optionFail"}) =>
          LET ip == EntryIP(FlightEntry)
          IN  /\ peerStats'.RTTresultsMap[ip].RTT = RTTUnreachable
              /\ peerStats'.CNT0 = peerStats.CNT0 + 1
              /\ peerStats'.CNT1 = peerStats.CNT1
              /\ peerStats'.CNT2 = peerStats.CNT2
              /\ peerStats'.CNT3 = peerStats.CNT3
              /\ peerStats'.CNT4 = peerStats.CNT4
              /\ peerStats'.RTTSUM = peerStats.RTTSUM
     /\ lastOp'.op \in {"pingStart", "probe", "pingFinish"} =>
          (failCount' <= failCount /\ exitReason' = "none")]_vars

\* a probe has just failed at the connect or at the option read while
\* failures of other tasks were counted
C8_Witness ==
  /\ lastOp.op = "probe"
  /\ lastOp.how \in {"connectFail", "optionFail"}
  /\ peerStats.CNT0 >= 1
  /\ failCount >= 1

SelectedEpochLength ==
  IF promMetrics.EpochNum >= cfgNode.ShelleyTransEpoch
  THEN cfgNode.ShelleyEpochLength ELSE cfgNode.ByronEpochLength

\* C10: the epoch progress is 0.0 when the epoch length of the era selected
\* for the reported epoch is 0.
C10_ZeroLengthGivesZero ==
  (/\ lastOp.op = "epochProgress"
   /\ cfgNode.ShelleyTransEpoch >= 0
   /\ ~promMetrics.isNil
   /\ SelectedEpochLength = 0) => epochProgress = F32Zero

\* C11: the epoch progress is 0.0 whenever the transition epoch is negative,
\* for every metrics snapshot and for no snapshot at all.
C11_NegativeTransitionGivesZero ==
  (lastOp.op = "epochProgress" /\ cfgNode.ShelleyTransEpoch < 0) =>
    epochProgress = F32Zero

\* the progress was computed with the sentinel -1 from a snapshot that would
\* give 100 * 100000 / 432000 in either era
C11_Witness ==
  /\ lastOp.op = "epochProgress"
  /\ cfgNode.ShelleyTransEpoch = -1
  /\ cfgNode.ShelleyEpochLength = MainnetEpochLength
  /\ cfgNode.ByronEpochLength = MainnetEpochLength
  /\ ~promMetrics.isNil
  /\ promMetrics.SlotInEpoch = 100000
  /\ epochProgress = F32Zero

\* C12: with a resolved transition epoch and a slot in epoch below the epoch
\* length of the selected era, the epoch progress is >= 0 and < 100.
C12_ProgressBelowHundred ==
  (/\ lastOp.op = "epochProgress"
   /\ cfgNode.ShelleyTransEpoch >= 0
   /\ ~promMetrics.isNil
   /\ promMetrics.SlotInEpoch < SelectedEpochLength) =>
    /\ epochProgress.kind = "fin"
    /\ epochProgress.num >= 0
    /\ epochProgress.num < 100 * epochProgress.den

\* C13: with a resolved transition epoch the epoch progress is
\* 100 * slotInEpoch / Shelley epoch length when the reported epoch is at or
\* after the transition epoch and 100 * slotInEpoch / Byron epoch length
\* before it (operands a float32 holds exactly, epoch length not 0); mainnet,
\* epoch 208, slot 100000 of 432000 gives 23.1.
C13_ProgressOfSelectedEra ==
  (/\ lastOp.op = "epochProgress"
   /\ cfgNode.ShelleyTransEpoch >= 0
   /\ ~promMetrics.isNil) =>
    /\ (/\ promMetrics.EpochNum >= cfgNode.ShelleyTransEpoch
        /\ cfgNode.ShelleyEpochLength \in 1..(2^F32MantissaBits)
        /\ promMetrics.SlotInEpoch <= 2^F32MantissaBits) =>
         epochProgress = F32(100 * promMetrics.SlotInEpoch, cfgNode.ShelleyEpochLength)
    /\ (/\ promMetrics.EpochNum < cfgNode.ShelleyTransEpoch
        /\ cfgNode.ByronEpochLength \in 1..(2^F32MantissaBits)
        /\ promMetrics.SlotInEpoch <= 2^F32MantissaBits) =>
         epochProgress = F32(100 * promMetrics.SlotInEpoch, cfgNode.ByronEpochLength)
    /\ (/\ cfgNode.ShelleyTransEpoch = MainnetTransEpoch
        /\ promMetrics.EpochNum = MainnetTransEpoch
        /\ promMetrics.SlotInEpoch = 100000
        /\ cfgNode.ShelleyEpochLength = MainnetEpochLength) =>
         (10 * epochProgress.num) \div epochProgress.den = 231

\* the progress of the boundary epoch of mainnet was computed with a Byron
\* epoch length that differs from the Shelley one
C13_Witness ==
  /\ lastOp.op = "epochProgress"
  /\ cfgNode.ShelleyTransEpoch = MainnetTransEpoch
  /\ promMetrics.EpochNum = MainnetTransEpoch
  /\ promMetrics.SlotInEpoch = 100000
  /\ cfgNode.ShelleyEpochLength = MainnetEpochLength
  /\ cfgNode.ByronEpochLength = 2
  /\ epochProgress = F32(100 * 100000, MainnetEpochLength)

\* C14: at now = byronEndTime the slot number of the Shelley-era return and the
\* slot number the Byron-era formula gives for the same second differ by less
\* than one slot, for every configuration with positive slot and epoch lengths
C14_ContinuousAtEraBoundary ==
  (/\ lastOp.op = "slotTip"
   /\ now - 1 = byronEndTime(globalConfig)
   /\ globalConfig.Node.ByronGenesis.EpochLength > 0
   /\ globalConfig.Node.ByronGenesis.SlotLength > 0)
    => /\ lastOp.how = "shelley"
       /\ U64Int(slotTipRef) - U64Int(SlotTipByron(globalConfig, now - 1)) < 1
       /\ U64Int(SlotTipByron(globalConfig, now - 1)) - U64Int(slotTipRef) < 1

\* the network name the populate functions switch on: app.network, else
\* node.network
ConfiguredNetwork(c) == IF c.App.Network # "" THEN c.App.Network ELSE c.Node.Network

\* the names of the switches of the populate functions
NamedNetworks == {"mainnet", "preprod", "preview", "sancho"}

\* LoadConfig ran on a configuration that was read without an I/O error
Loaded == lastOp.op = "loadConfig" /\ lastOp.how \in {"ok"} \cup
            {"unknown network", "unable to populate byron genesis config",
             "unable to populate shelley genesis config",
             "unable to populate shelley transition epoch"}

\* no genesis or era value is supplied: every such field holds the value of
\* getDefaultConfig
NoExplicitValues(c) ==
  /\ c.Node.NetworkMagic = getDefaultConfig.Node.NetworkMagic
  /\ c.Node.Port = getDefaultConfig.Node.Port
  /\ c.Node.ShelleyTransEpoch = getDefaultConfig.Node.ShelleyTransEpoch
  /\ c.Node.ByronGenesis = getDefaultConfig.Node.ByronGenesis
  /\ c.Node.ShelleyGenesis = getDefaultConfig.Node.ShelleyGenesis

\* C15: when the configured network name is none of the named networks,
\* loading the configuration fails and the program exits at startup
C15_UnknownNetworkIsFatal ==
  (/\ Loaded
   /\ ConfiguredNetwork(cfgInput) # ""
   /\ ConfiguredNetwork(cfgInput) \notin NamedNetworks)
    => loadResult = "err" /\ exitReason = "configError"

\* a field of the input that differs from its default keeps its value
KeepsExplicit(in, def, out) == in # def => out = in

\* C16: a successful load leaves every explicitly supplied genesis or era value
\* (K, epoch lengths, slot lengths, start time, transition epoch, network magic,
\* node port) as it was supplied
C16_ExplicitValuesKept ==
  (Loaded /\ loadResult = "ok") =>
    LET in == cfgInput.Node
        def == getDefaultConfig.Node
        out == globalConfig.Node
    IN  /\ KeepsExplicit(in.NetworkMagic, def.NetworkMagic, out.NetworkMagic)
        /\ KeepsExplicit(in.Port, def.Port, out.Port)
        /\ KeepsExplicit(in.ShelleyTransEpoch, def.ShelleyTransEpoch, out.ShelleyTransEpoch)
        /\ \A f \in {"StartTime", "EpochLength", "K", "SlotLength"} :
             KeepsExplicit(in.ByronGenesis[f], def.ByronGenesis[f], out.ByronGenesis[f])
        /\ \A f \in {"EpochLength", "SlotLength"} :
             KeepsExplicit(in.ShelleyGenesis[f], def.ShelleyGenesis[f],
                           out.ShelleyGenesis[f])

\* C17: after a successful load both eras have a positive epoch length and a
\* positive slot length
C17_LengthsPositiveAfterLoad ==
  (Loaded /\ loadResult = "ok") =>
    /\ globalConfig.Node.ByronGenesis.EpochLength > 0
    /\ globalConfig.Node.ByronGenesis.SlotLength > 0
    /\ globalConfig.Node.ShelleyGenesis.EpochLength > 0
    /\ globalConfig.Node.ShelleyGenesis.SlotLength > 0

\* the parameters the tests of the populate functions expect per network:
\* magic, Byron start time and K, Shelley epoch length, transition epoch
ExpectedParameters(name) ==
  CASE name = "mainnet" -> [magic |-> {764824073}, start |-> 1506203091, k |-> 2160,
                            epochLength |-> MainnetEpochLength,
                            trans |-> MainnetTransEpoch]
    [] name = "preprod" -> [magic |-> {1}, start |-> 1654041600, k |-> 2160,
                            epochLength |-> MainnetEpochLength, trans |-> 4]
    [] name = "preview" -> [magic |-> {2}, start |-> 1666656000, k |-> 432,
                            epochLength |-> 86400, trans |-> 0]
    [] name = "sancho" -> [magic |-> 1..(2^30), start |-> 1686789000, k |-> 432,
                           epochLength |-> 86400, trans |-> 0]

\* the loaded configuration holds the parameters of the named network
HoldsParameters(c, name) ==
  LET e == ExpectedParameters(name)
  IN  /\ c.Node.NetworkMagic \in e.magic
      /\ c.Node.ByronGenesis.StartTime = e.start
      /\ c.Node.ByronGenesis.K = e.k
      /\ c.Node.ByronGenesis.EpochLength = 10 * e.k
      /\ c.Node.ByronGenesis.SlotLength = 20000
      /\ c.Node.ShelleyGenesis.EpochLength = e.epochLength
      /\ c.Node.ShelleyGenesis.SlotLength = 1000
      /\ c.Node.ShelleyTransEpoch = e.trans

\* C18: with app.network and node.network both empty and no explicit value,
\* loading succeeds with the mainnet parameters (network magic 764824073)
C18_NoNetworkDefaultsToMainnet ==
  (/\ Loaded
   /\ cfgInput.App.Network = ""
   /\ cfgInput.Node.Network = ""
   /\ NoExplicitValues(cfgInput))
    => /\ loadResult = "ok"
       /\ exitReason = "none"
       /\ globalConfig.Node.Network = "mainnet"
       /\ globalConfig.Node.NetworkMagic = 764824073
       /\ HoldsParameters(globalConfig, "mainnet")

C18_Witness ==
  /\ Loaded
  /\ cfgInput.App.Network = ""
  /\ cfgInput.Node.Network = ""
  /\ NoExplicitValues(cfgInput)
  /\ loadResult = "ok"
  /\ globalConfig.Node.NetworkMagic = 764824073

\* C19: each of mainnet, preprod, preview and sancho, configured as the network
\* name with no explicit value, is accepted and yields that network's genesis
\* parameters
C19_DocumentedNetworksAccepted ==
  (/\ Loaded
   /\ ConfiguredNetwork(cfgInput) \in NamedNetworks
   /\ NoExplicitValues(cfgInput))
    => /\ loadResult = "ok"
       /\ HoldsParameters(globalConfig, ConfiguredNetwork(cfgInput))

\* the rows of the current connection table
ConnRows == {ConnUniverse[i] : i \in connections}

\* the rows the claim calls inbound and outbound
InboundRows ==
  {r \in ConnRows : r.Status = "ESTABLISHED" /\ r.LaddrPort = NodePort}
OutboundRows ==
  {r \in ConnRows : r.Status = "ESTABLISHED"
                    /\ r.LaddrPort \notin {NodePort, EkgPort, PromPort}}

\* the row is not a connection of the node to itself
NotSelf(r) == ~IsSelf(r.RaddrIP, FormatUint(r.RaddrPort), publicIP)

\* the number of entries of ws with one of the directions dirs
CountDir(ws, dirs) == Cardinality({k \in 1..Len(ws) : EntryDir(ws[k]) \in dirs})

\* C20: discovery takes only ESTABLISHED connections, as inbound exactly those
\* whose local port is the node port and as outbound exactly those whose local
\* port is none of the node port, 12788 and the Prometheus port, none as both.
\* Stated on the pass that fills an empty working set: the entries it leaves
\* are one per inbound and one per outbound connection that is not a
\* self-connection, with the direction of that connection.
C20_ClassifiesByLocalPort ==
  [][(lastOp'.op = "filter" /\ lastOp'.how = "built" /\ peersFiltered = <<>>) =>
       /\ InboundRows \cap OutboundRows = {}
       /\ CountDir(peersFiltered', {DirIn, DirDuplex})
            = Cardinality({r \in InboundRows : NotSelf(r)})
       /\ CountDir(peersFiltered', {DirOut, DirDuplex})
            = Cardinality({r \in OutboundRows : NotSelf(r)})
       /\ Len(peersFiltered')
            = Cardinality({r \in InboundRows \cup OutboundRows : NotSelf(r)})]_vars

\* discovery has just built the working set from a table that holds a peer
\* and a connection that is neither inbound nor outbound (not ESTABLISHED, or
\* on the Prometheus port or on port 12788)
C20_Witness ==
  /\ lastOp = Op("filter", "built")
  /\ connections \cap {7, 8, 9} # {}
  /\ Cardinality(connections) = 2
  /\ Len(peersFiltered) = 1
  /\ peersFiltered = BuildPeers(TableRows(connections), publicIP).peers

\* C21: a discovery pass replaces the snapshot peersFiltered by the set it
\* built only if the two differ in size; a built set of the same size leaves
\* the snapshot as it is, whatever its members, and a pass that builds nothing
\* leaves it as well
C21_ReplacedOnlyOnSizeChange ==
  [][lastOp'.op = "filter" =>
       LET built == BuildPeers(TableRows(connections), publicIP).peers
       IN  /\ peersFiltered' # peersFiltered =>
                (/\ lastOp'.how = "built"
                 /\ Len(built) # Len(peersFiltered)
                 /\ peersFiltered' = built)
           /\ (lastOp'.how = "built" /\ Len(built) = Len(peersFiltered)) =>
                peersFiltered' = peersFiltered]_vars

\* a pass has just built a set of the size of the snapshot with other members,
\* and the snapshot is the old one
C21_Witness ==
  /\ lastOp = Op("filter", "built")
  /\ Len(peersFiltered) = 1
  /\ Len(BuildPeers(TableRows(connections), publicIP).peers) = 1
  /\ peersFiltered # BuildPeers(TableRows(connections), publicIP).peers

\* C22: a discovery pass that directly follows a pass that built a set, on the
\* same connection table, leaves the snapshot peersFiltered as the first pass
\* left it
C22_SecondPassChangesNothing ==
  [][(lastOp.op = "filter" /\ lastOp.how = "built" /\ lastOp'.op = "filter") =>
       /\ connections' = connections
       /\ lastOp'.how = "built"
       /\ peersFiltered' = peersFiltered]_vars

\* two passes in a row have built from a table of two peers, and the snapshot
\* is the set built
C22_Witness ==
  /\ lastOp = Op("filter", "built")
  /\ Cardinality(connections) = 2
  /\ Len(peersFiltered) = 2
  /\ peersFiltered = BuildPeers(TableRows(connections), publicIP).peers

\* the sum of the four bucket percentages of ps is at most 100; each is a
\* fraction num / den with den > 0
PctSumAtMostHundred(ps) ==
  LET d1 == ps.PCT1.den
      d2 == ps.PCT2.den
      d3 == ps.PCT3.den
      d4 == ps.PCT4.den
  IN  ps.PCT1.num * d2 * d3 * d4 + ps.PCT2.num * d1 * d3 * d4
        + ps.PCT3.num * d1 * d2 * d4 + ps.PCT4.num * d1 * d2 * d3
        <= 100 * d1 * d2 * d3 * d4

\* C23: when a probing pass ends with reachable peers (peer count minus CNT0
\* above zero), each of PCT1..PCT4 is 100 * CNTk / (peer count - CNT0), and
\* after every pass the four percentages add up to at most 100
C23_PercentagesOverReachable ==
  [][lastOp'.op = "pingFinish" =>
       LET reachable == pingPass.peerCount - peerStats.CNT0
       IN  /\ reachable > 0 =>
                (/\ peerStats'.PCT1 = Pct(peerStats.CNT1, reachable)
                 /\ peerStats'.PCT2 = Pct(peerStats.CNT2, reachable)
                 /\ peerStats'.PCT3 = Pct(peerStats.CNT3, reachable)
                 /\ peerStats'.PCT4 = Pct(peerStats.CNT4, reachable))
           /\ PctSumAtMostHundred(peerStats')]_vars

\* C25: while a pass iterates, the peer count it took and the list it
\* iterates are of one snapshot: the count is the length of the list
C25_CountAndListOfOneSnapshot ==
  pingPc = "loop" => pingPass.peerCount = Len(pingPass.list)

\* C26: when a pass has just cleared checkPeers, the result list is not empty
\* and at least as long as the working set peersFiltered is at that moment
C26_DoneCoversWorkingSet ==
  (lastOp.op = "pingFinish" /\ lastOp.how = "done") =>
    /\ Len(peerStats.RTTresultsSlice) # 0
    /\ Len(peerStats.RTTresultsSlice) >= Len(peersFiltered)

\* C27: a step that changes the number of discovered peers while checkPeers
\* is cleared sets checkPeers, so that the next call of pingPeers starts a
\* pass; no key is pressed
C27_PeerCountChangeRestartsProbing ==
  [][(~checkPeers /\ Len(peersFiltered') # Len(peersFiltered)) => checkPeers']_vars

\* the keys that ask for a re-check
RecheckKeys == {"keyP", "keyR"}

\* C24: a reset of the aggregate counters never interleaves with the counter
\* writes of a probing pass in progress: no re-check key is handled in a
\* state where a probe of the pass has just written its counters and the
\* pass has not yet written its aggregates
C24_ResetOutsideCounterWrites ==
  [][(pingPc = "loop" /\ lastOp.op = "probe" /\ lastOp.how # "skip")
       => lastOp'.op \notin RecheckKeys]_vars

\* nothing of an earlier cycle is in the statistics
StatsCleared(ps) ==
  /\ ps.CNT0 = 0 /\ ps.CNT1 = 0 /\ ps.CNT2 = 0 /\ ps.CNT3 = 0 /\ ps.CNT4 = 0
  /\ ps.RTTSUM = 0
  /\ ps.RTTAVG = 0
  /\ ps.PCT1.num = 0 /\ ps.PCT2.num = 0 /\ ps.PCT3.num = 0 /\ ps.PCT4.num = 0
  /\ ps.RTTresultsSlice = <<>>
  /\ DOMAIN ps.RTTresultsMap = {}

\* C28: right after the operator's re-check (p, or r/h), with no pass under
\* way, the five bucket counters, the RTT sum, the average, the percentages
\* and the per-peer results are all cleared
C28_RecheckLeavesNothing ==
  (lastOp.op \in RecheckKeys /\ pingPc = "idle") => StatsCleared(peerStats)

\* C29: after the operator's re-check, with the connected peers fixed and
\* non-empty and every probe returning, the prober reaches Done again
C29_RecheckReachesDoneAgain == (lastOp.op = "keyP") ~> ~checkPeers

\* C30: from startup, with a fixed non-empty set of connected peers of
\* pairwise distinct IPs and every probe returning, the prober reaches Done
C30_StartupReachesDone == <>(~checkPeers)

\* C31: when every cycle of the process lookup fails, the failure counter
\* eventually reaches the retry threshold and the refresh loop terminates
\* the process, however the goroutines interleave
C31_FailingTaskTerminates == <>(exitReason = "retries")

\* the peer the loop of pingPeers is at, and its recorded result if any
CurrentIP == EntryIP(FlightEntry)
HasResult == CurrentIP \in DOMAIN peerStats.RTTresultsMap
Recorded == peerStats.RTTresultsMap[CurrentIP]

\* C32: a peer of the pass is skipped exactly when it has a recorded result
\* that is less than 600 seconds old with a non-zero RTT or that has a
\* resolved location; otherwise it is probed and its result is recorded.  A
\* skipped peer changes nothing of the statistics.
C32_SkipRule ==
  [][lastOp'.op = "probe" =>
       LET skip == /\ HasResult
                   /\ \/ (now - Recorded.UpdatedAt < FreshSeconds /\ Recorded.RTT # 0)
                      \/ Recorded.Location # NoLocation
       IN  /\ (lastOp'.how = "skip") <=> skip
           /\ skip => peerStats' = peerStats
           /\ ~skip =>
                 /\ Len(peerStats'.RTTresultsSlice) = Len(peerStats.RTTresultsSlice) + 1
                 /\ CurrentIP \in DOMAIN peerStats'.RTTresultsMap
                 /\ peerStats'.RTTresultsMap[CurrentIP].UpdatedAt = now]_vars
\* after a tick, a peer without a location was probed again and then
\* skipped for its fresh non-zero RTT
C32_Witness ==
  /\ lastOp = Op("probe", "skip")
  /\ now = TickSeconds
  /\ LET ip == EntryIP(pingPass.list[pingPass.idx - 1])
     IN  /\ peerStats.RTTresultsMap[ip].Location = NoLocation
         /\ peerStats.RTTresultsMap[ip].UpdatedAt = now
         /\ Len(peerStats.RTTresultsSlice) >= 2

\* non-decreasing RTT, and nothing behind an unreachable peer but
\* unreachable peers
SortedByRTT(p) ==
  \A i, j \in 1..Len(p) :
    i < j => /\ p[i].RTT <= p[j].RTT
             /\ p[i].RTT = RTTUnreachable => p[j].RTT = RTTUnreachable

\* C33: after each insertion of a probe result the result list is in
\* non-decreasing RTT order, with the unreachable peers (99999) last
C33_SortedAfterInsertion ==
  [][(lastOp'.op = "probe" /\ lastOp'.how # "skip") =>
       SortedByRTT(peerStats'.RTTresultsSlice)]_vars
\* a measured RTT was inserted into a list that held an unreachable peer
C33_Witness ==
  /\ lastOp = Op("probe", "decodeErr")
  /\ Len(peerStats.RTTresultsSlice) = 2
  /\ peerStats.RTTresultsSlice[1].RTT < RTTUnreachable
  /\ peerStats.RTTresultsSlice[2].RTT = RTTUnreachable

\* C34: no two peer probes update the counters, the result map or the
\* result list concurrently: at most one goroutine of the pass runs at any
\* moment, so the updates of distinct probes come one after the other
C34_ProbesSerialized == Cardinality(pingPass.flight) <= 1
\* the goroutine of the second peer of a pass runs after the first one has
\* recorded its result
C34_Witness ==
  /\ pingPc = "loop"
  /\ pingPass.flight = {2}
  /\ Len(pingPass.list) = 2
  /\ Len(peerStats.RTTresultsSlice) >= 1
  /\ lastOp = Op("pingGo", "")

\* C35: whenever a discovery pass finds a number of peers different from
\* the size of the current snapshot, zero peers after every connection has
\* closed included, the snapshot after the pass is the set it found
FoundPeers == BuildPeers(TableRows(connections), publicIP).peers
C35_SnapshotFollowsDiscovery ==
  [][(lastOp'.op = "filter" /\ lastOp'.how \in {"noPeers", "built"}
        /\ Len(FoundPeers) # Len(peersFiltered))
       => peersFiltered' = FoundPeers]_vars

\* C36: when the reported slot is not 0 the chain text shows Syncing only
\* if the reported slot is more than 600 slots behind the slot estimate; a
\* reported slot equal to the estimate or ahead of it is never shown as
\* syncing
C36_SyncingOnlyFarBehind ==
  (/\ lastOp.op = "slotTip"
   /\ lastOp.how # "panic"
   /\ chainStatus.SlotNum # U64(0)
   /\ chainStatus.status = "syncing")
    => /\ U64Less(chainStatus.SlotNum, slotTipRef)
       /\ U64Less(U64(600), U64Sub(slotTipRef, chainStatus.SlotNum))

\* C37: for every clock earlier than the end of the Byron era, the clocks
\* earlier than the Byron start time included, the slot estimate is at most
\* ShelleyTransEpoch * ByronGenesis.EpochLength
C37_ByronEstimateBounded ==
  lastOp = Op("slotTip", "byron")
    => U64LessEq(slotTipRef, U64(byronSlots(globalConfig)))

\* C38: when the TCP connect, the read of the socket option and the decoding
\* of the TCP info all succeed, the probe returns the measured round-trip
\* time in milliseconds and not the Unreachable sentinel
C38_DecodedProbeReturnsRtt ==
  [][(lastOp'.op = "probe" /\ lastOp'.how = "decoded")
       => peerStats'.RTTresultsMap[EntryIP(FlightEntry)].RTT \in RttSamples]_vars

\* the seconds of one epoch of the Byron and of the Shelley genesis
ByronEpochSeconds(c) ==
  (c.Node.ByronGenesis.EpochLength * c.Node.ByronGenesis.SlotLength) \div 1000
ShelleyEpochSeconds(c) ==
  (c.Node.ShelleyGenesis.EpochLength * c.Node.ShelleyGenesis.SlotLength) \div 1000

\* C39: for every clock at or after the end of the Byron era
\* timeUntilNextEpoch returns a number of seconds greater than 0 and at most
\* the duration of one epoch
C39_TimeLeftWithinEpoch ==
  (lastOp = Op("timeLeft", "") /\ now - 1 >= byronEndTime(globalConfig))
    => /\ U64Less(U64(0), epochTimeLeft)
       /\ \/ U64LessEq(epochTimeLeft, U64(ByronEpochSeconds(globalConfig)))
          \/ U64LessEq(epochTimeLeft, U64(ShelleyEpochSeconds(globalConfig)))

====
